---- MODULE Spec2Model ----
(***************************************************************************)
(* State-machine model of the webshop service layer (app/services.py) on   *)
(* top of the tables declared in app/models.py.                            *)
(*                                                                         *)
(* Every table is a sequence of rows; the autoincrement primary key of a   *)
(* row is its index in the sequence (rows are never deleted by any service *)
(* operation).  Each session.commit() of the source is one atomic step.    *)
(* A load whose result another call's write can change, a commit and the   *)
(* return that follows a commit are steps of their own, and the commit of  *)
(* a loaded object writes the attributes changed since the load.  A step   *)
(* holds a load together with the return only where no write of any call   *)
(* can change what the load finds (a stored Customer or Payment is never   *)
(* deleted, an unknown payment id is never issued, no call of the          *)
(* two-worker specifications writes a Product), and a refused commit       *)
(* together with the exception it raises, as the row that refuses it       *)
(* stays stored.                                                           *)
(* A service call is executed by a worker; frame[t] is the worker's        *)
(* position in the call and its local variables.  Under Spec one worker    *)
(* runs every call to completion before the next call starts (the          *)
(* single-threaded request/response model); under SpecConc two workers     *)
(* interleave at these steps.                                              *)
(*                                                                         *)
(* get_session() lives in app/database.py.  A session opened with          *)
(* expire_on_commit = True (the Session default) expires every attribute   *)
(* of its objects at each commit; an object returned after a commit        *)
(* without session.refresh, and read after its session was closed, raises  *)
(* DetachedInstanceError.  OrderService.create_order returns such an       *)
(* object (services.py:135-137).  The setting is the variable              *)
(* expire_on_commit, fixed for the life of the process; both settings are  *)
(* modelled.                                                               *)
(*                                                                         *)
(* Python None is NoneStr for optional strings, NoneInt for optional       *)
(* integers/timestamps and NoneTok for optional generated identifiers.     *)
(* Money is kept in cents (Decimal with two places).  The columns          *)
(* name/description/image_url/currency/created_at/updated_at and the       *)
(* shipping columns are written once and never read by the service layer;  *)
(* they are left out of the rows.                                          *)
(***************************************************************************)
EXTENDS Integers, Sequences, FiniteSets, TLC

VARIABLES
    products,     \* table "products"
    customers,    \* table "customers"
    orders,       \* table "orders"
    order_items,  \* table "order_items"
    payments,     \* table "payments"
    uuidCount,    \* number of uuid.uuid4() values drawn so far
    clock,        \* datetime.utcnow() reading recorded by the last completion
    frame,        \* per worker: program counter, arguments and locals
    ret,          \* the most recent call that returned: operation, arguments, value
    handles,      \* history: the PayPalPaymentResponse values returned so far
    created,      \* history: the ProductCreate input behind each product id
    lastCall,     \* history: per payment id, the last of complete/cancel to return true
    expire_on_commit, \* whether get_session() sessions expire objects at commit
    calls         \* number of service calls the behaviour may still start

vars == <<products, customers, orders, order_items, payments,
          uuidCount, clock, frame, ret, handles, created, lastCall,
          expire_on_commit, calls>>

tables == <<products, customers, orders, order_items, payments>>

----------------------------------------------------------------------------
(* Bounds of the model *)

\* a behaviour of Spec holds at most this many service calls
MaxCalls == 5

\* a behaviour of SpecConc holds at most this many service calls
MaxConcCalls == 3

----------------------------------------------------------------------------
(* Values *)

NoneStr == "<None>"
NoneInt == 0
NoneTok == <<>>

\* What a call hands back to its caller.  Records with different field names
\* are different values, so None, an escaped exception, a bool, a table row
\* and a response handle never compare equal.
NoneVal == [none |-> TRUE]
Raised == [raised |-> TRUE]
BoolVal(b) == [bool |-> b]
RowVal(r) == [row |-> r]
\* an object whose attributes were expired by a commit and whose session
\* is closed: reading any column raises DetachedInstanceError
Expired == [expired |-> TRUE]
\* the settings of expire_on_commit a session factory can have
SessionSettings == BOOLEAN
HandleVal(h) == [handle |-> h]

Workers == {"w1", "w2"}

\* app/models.py PaymentStatus
PaymentStatus == {"pending", "completed", "failed", "cancelled"}

\* app/models.py OrderStatus
OrderStatus == {"created", "payment_pending", "paid", "processing",
                "shipped", "delivered", "cancelled"}

\* ProductCreate inputs (every one passes the field constraints price >= 0,
\* stock_quantity >= 0): purchasable; out of stock; inactive in the category
\* of the first; purchasable with the sku of the first
CoreTestProduct ==
    [price |-> 9999,  stock_quantity |-> 5, is_active |-> TRUE,
     sku |-> "CORE-001", category |-> "Web Development"]

ProductInputs ==
    { CoreTestProduct,
      [price |-> 12345, stock_quantity |-> 0, is_active |-> TRUE,
       sku |-> NoneStr, category |-> "Mobile Development"],
      [price |-> 2500,  stock_quantity |-> 5, is_active |-> FALSE,
       sku |-> NoneStr, category |-> "Web Development"],
      [price |-> 2500,  stock_quantity |-> 1, is_active |-> TRUE,
       sku |-> "CORE-001", category |-> "Mobile Development"] }

\* categories a caller may ask for: carried by rows, one that differs from
\* a carried one in case only, and one carried by none
Categories == {"Web Development", "Mobile Development",
               "web development", "Nonexistent Category"}

\* (email, first_name, last_name, phone) arguments: a customer, the same
\* email under another name and phone, and a second email
FirstCustomer ==
    [email |-> "existing@example.com", first_name |-> "Jane",
     last_name |-> "Smith", phone |-> NoneStr]

SameEmailCustomer ==
    [email |-> "existing@example.com", first_name |-> "Different Name",
     last_name |-> "Different Last", phone |-> "123-456-7890"]

OtherCustomer ==
    [email |-> "test@example.com", first_name |-> "John",
     last_name |-> "Doe", phone |-> "123-456-7890"]

CustomerInputs == {FirstCustomer, SameEmailCustomer, OtherCustomer}

\* the customers of the two-worker specification: two emails, each of which
\* both workers may use
ConcCustomerInputs == {FirstCustomer, OtherCustomer}

PayerIds == {"PAYER-A", "PAYER-B"}

\* uuid.uuid4() is modelled as never repeating: the n-th draw is n. A
\* payment id keeps 80 bits and a transaction id 64 bits of the draw and are
\* taken as never repeating either; an order number keeps only 32 bits (and
\* the date), so the number of a new draw can be one already stored, see
\* OrderNumbers
OrderNumber(u) == <<"ORD", u>>
PaymentId(u) == <<"PAY", u>>
TransactionId(u) == <<"TXN", u>>

\* a payment id no purchase ever issued
UnknownPaymentId == PaymentId(0)

Idle == [pc |-> "idle"]

----------------------------------------------------------------------------
(* Queries: pure reads of the tables *)

Ids(table) == 1..Len(table)

\* session.get(Product, product_id)
get_product_by_id(product_id) ==
    IF product_id \in Ids(products) THEN products[product_id] ELSE NoneVal

\* mutant: the where clause is missing
get_all_active_products_Unfiltered == products

\* select(Product).where(Product.is_active == True)
get_all_active_products ==
    SelectSeq(products, LAMBDA p : p.is_active = TRUE)

\* mutant: the is_active condition is missing
get_products_by_category_AnyActivity(category) ==
    SelectSeq(products, LAMBDA p : p.category = category)

\* select(Product).where(Product.is_active == True, Product.category == category)
get_products_by_category(category) ==
    SelectSeq(products, LAMBDA p : p.is_active = TRUE /\ p.category = category)

\* .first(): of the rows a select matches, the one with the least id
FirstId(hits) == CHOOSE i \in hits : \A j \in hits : i <= j

\* select(Customer).where(Customer.email == email), .first()
CustomerByEmail(email) ==
    LET hits == {i \in Ids(customers) : customers[i].email = email} IN
    IF hits = {} THEN NoneVal ELSE customers[FirstId(hits)]

\* mutant: the where clause is missing
get_payment_by_id_NoFilter(payment_id) ==
    IF Ids(payments) = {} THEN NoneVal ELSE payments[FirstId(Ids(payments))]

\* select(Payment).where(Payment.paypal_payment_id == payment_id), .first()
get_payment_by_id(payment_id) ==
    LET hits == {i \in Ids(payments) :
                    payments[i].paypal_payment_id = payment_id} IN
    IF hits = {} THEN NoneVal ELSE payments[FirstId(hits)]

\* session.get(Order, order_id)
get_order_by_id(order_id) ==
    IF order_id \in Ids(orders) THEN orders[order_id] ELSE NoneVal

----------------------------------------------------------------------------
(* Column constraints enforced by the store on insert *)

\* Product.sku: unique=True (NULLs do not collide)
SkuUnique(sku) ==
    sku = NoneStr \/ \A i \in Ids(products) : products[i].sku # sku

\* mutant: the column is not declared unique
EmailUnique_NotEnforced(email) == TRUE

\* Customer.email: unique=True
EmailUnique(email) ==
    \A i \in Ids(customers) : customers[i].email # email

----------------------------------------------------------------------------
Init ==
    /\ expire_on_commit \in SessionSettings
    /\ products = <<>>
    /\ customers = <<>>
    /\ orders = <<>>
    /\ order_items = <<>>
    /\ payments = <<>>
    /\ uuidCount = 0
    /\ clock = 0
    /\ frame = [t \in Workers |-> Idle]
    /\ ret = [op |-> "none", args |-> NoneVal, val |-> NoneVal]
    /\ handles = {}
    /\ created = <<>>
    /\ lastCall = [x \in {} |-> "none"]
    /\ calls = MaxCalls

\* the call op(args) of worker t returns val to its caller
Returns(t, op, args, val) ==
    /\ frame' = [frame EXCEPT ![t] = Idle]
    /\ ret' = [op |-> op, args |-> args, val |-> val]
    /\ expire_on_commit' = expire_on_commit

\* worker t moves on inside its call
Goto(t, f) ==
    /\ frame' = [frame EXCEPT ![t] = f]
    /\ ret' = ret
    /\ expire_on_commit' = expire_on_commit

\* an idle worker starts a call, while the bound allows it
Enter(t) ==
    /\ frame[t].pc = "idle"
    /\ calls > 0
    /\ calls' = calls - 1

\* lastCall once op has returned true for payment_id
Noted(payment_id, op) ==
    [x \in DOMAIN lastCall \cup {payment_id} |->
        IF x = payment_id THEN op ELSE lastCall[x]]

\* table sizes on entry to a call
Base ==
    [customers |-> Len(customers), orders |-> Len(orders),
     order_items |-> Len(order_items), payments |-> Len(payments)]

----------------------------------------------------------------------------
(* ProductService.create_product *)

\* mutant: the price is stored in whole currency units
ProductRow_WholeUnits(id, d) ==
    [id |-> id, price |-> (d.price \div 100) * 100,
     stock_quantity |-> d.stock_quantity,
     is_active |-> d.is_active, sku |-> d.sku, category |-> d.category]

\* Product(**product_data.model_dump()) with the id the insert assigns
ProductRow(id, d) ==
    [id |-> id, price |-> d.price, stock_quantity |-> d.stock_quantity,
     is_active |-> d.is_active, sku |-> d.sku, category |-> d.category]

create_product(t, d) ==
    /\ Enter(t)
    /\ IF SkuUnique(d.sku)
       THEN /\ products' = Append(products, ProductRow(Len(products) + 1, d))
            /\ created' = Append(created, d)
            /\ Returns(t, "create_product", d,
                       RowVal(ProductRow(Len(products) + 1, d)))
       ELSE \* IntegrityError from session.commit(): nothing catches it
            /\ products' = products
            /\ created' = created
            /\ Returns(t, "create_product", d, Raised)
    /\ UNCHANGED <<customers, orders, order_items, payments, uuidCount,
                   clock, handles, lastCall>>

----------------------------------------------------------------------------
(* CustomerService.get_or_create_customer: called directly (op =           *)
(* "get_or_create_customer") or from create_paypal_payment (op =           *)
(* "purchase").  The select, the insert and the return that follows the    *)
(* insert are steps of their own.                                          *)

\* Customer(**customer_data.model_dump()) with the id the insert assigns
CustomerRow(id, c) ==
    [id |-> id, email |-> c.email, first_name |-> c.first_name,
     last_name |-> c.last_name, phone |-> c.phone]

\* where a call goes once get_or_create_customer has returned customer
CustomerResolved(t, customer) ==
    IF frame[t].op = "purchase"
    THEN Goto(t, [frame[t] EXCEPT !.pc = "create_order",
                                  !.customer = customer])
    ELSE Returns(t, "get_or_create_customer", frame[t].args, RowVal(customer))

\* where a call goes once get_or_create_customer has raised: the except
\* clause of create_paypal_payment returns None, a direct caller sees the
\* exception
CustomerRaised(t) ==
    IF frame[t].op = "purchase"
    THEN Returns(t, "purchase", frame[t].args, NoneVal)
    ELSE Returns(t, "get_or_create_customer", frame[t].args, Raised)

get_or_create_customer(t, c) ==
    /\ Enter(t)
    /\ Goto(t, [pc |-> "customer_select", op |-> "get_or_create_customer",
                args |-> c, req |-> c, base |-> Base])
    /\ UNCHANGED <<tables, uuidCount, clock, created, handles, lastCall>>

\* mutant: a repeat email overwrites the stored name and phone
customer_select_Upsert(t) ==
    /\ frame[t].pc = "customer_select"
    /\ calls' = calls
    /\ LET existing_customer == CustomerByEmail(frame[t].req.email) IN
       IF existing_customer # NoneVal
       THEN LET merged == CustomerRow(existing_customer.id, frame[t].req) IN
            /\ customers' = [customers EXCEPT ![existing_customer.id] = merged]
            /\ CustomerResolved(t, merged)
       ELSE /\ customers' = customers
            /\ Goto(t, [frame[t] EXCEPT !.pc = "customer_insert"])
    /\ UNCHANGED <<products, orders, order_items, payments, uuidCount,
                   clock, created, handles, lastCall>>

customer_select(t) ==
    /\ frame[t].pc = "customer_select"
    /\ calls' = calls
    /\ LET existing_customer == CustomerByEmail(frame[t].req.email) IN
       IF existing_customer # NoneVal
       THEN CustomerResolved(t, existing_customer)
       ELSE Goto(t, [frame[t] EXCEPT !.pc = "customer_insert"])
    /\ UNCHANGED <<tables, uuidCount, clock, created, handles, lastCall>>

\* where a call goes once the new Customer is committed: a direct call has
\* its refresh and return still to come, create_paypal_payment goes on to
\* create_order, whose commit is its next write
CustomerStored(t, customer) ==
    IF frame[t].op = "purchase"
    THEN Goto(t, [frame[t] EXCEPT !.pc = "create_order",
                                  !.customer = customer])
    ELSE Goto(t, [pc |-> "customer_return", op |-> frame[t].op,
                  args |-> frame[t].args, req |-> frame[t].req,
                  base |-> frame[t].base, customer |-> customer])

\* session.add(customer) and session.commit(); a refused INSERT raises and
\* leaves the table as it is
customer_insert(t) ==
    /\ frame[t].pc = "customer_insert"
    /\ calls' = calls
    /\ IF EmailUnique(frame[t].req.email)
       THEN LET customer == CustomerRow(Len(customers) + 1, frame[t].req) IN
            /\ customers' = Append(customers, customer)
            /\ CustomerStored(t, customer)
       ELSE \* IntegrityError from session.commit()
            /\ customers' = customers
            /\ CustomerRaised(t)
    /\ UNCHANGED <<products, orders, order_items, payments, uuidCount,
                   clock, created, handles, lastCall>>

\* session.refresh(customer) and return customer: the row is read back as
\* it is stored
customer_return(t) ==
    /\ frame[t].pc = "customer_return"
    /\ calls' = calls
    /\ Returns(t, "get_or_create_customer", frame[t].args,
               RowVal(customers[frame[t].customer.id]))
    /\ UNCHANGED <<tables, uuidCount, clock, created, handles, lastCall>>

----------------------------------------------------------------------------
(* OrderService.update_order_status *)

\* mutant: a paid or cancelled order keeps its status
update_order_status_Guarded(ords, order_id, status) ==
    IF order_id \in Ids(ords) /\ ords[order_id].status \notin {"paid", "cancelled"}
    THEN [ords EXCEPT ![order_id].status = status]
    ELSE ords

\* mutant: a delivered order is final
update_order_status_DeliveredFinal(ords, order_id, status) ==
    IF order_id \in Ids(ords) /\ ords[order_id].status # "delivered"
    THEN [ords EXCEPT ![order_id].status = status]
    ELSE ords

\* mutant: a cancelled order has its total cleared
update_order_status_ClearsTotal(ords, order_id, status) ==
    IF order_id \in Ids(ords)
    THEN [ords EXCEPT ![order_id].status = status,
                      ![order_id].total_amount =
                          IF status = "cancelled" THEN 0 ELSE @]
    ELSE ords

\* the "orders" table after update_order_status(order_id, status)
update_order_status(ords, order_id, status) ==
    IF order_id \in Ids(ords)
    THEN [ords EXCEPT ![order_id].status = status]
    ELSE ords

----------------------------------------------------------------------------
(* PaymentService.create_paypal_payment with OrderService.create_order     *)

\* mutant: the stock check is missing
Purchasable_NoStockCheck(product) ==
    /\ product # NoneVal
    /\ product.is_active

\* the three product checks of create_paypal_payment
Purchasable(product) ==
    /\ product # NoneVal
    /\ product.is_active
    /\ ~(product.stock_quantity <= 0)

\* mutant: the order is stored as PAYMENT_PENDING from the start
OrderRow_BornPending(id, order_number, customer, product) ==
    [id |-> id, order_number |-> order_number, customer_id |-> customer.id,
     status |-> "payment_pending", total_amount |-> product.price]

\* mutant: the order total carries a tenth on top of the product price
OrderRow_TotalWithTax(id, order_number, customer, product) ==
    [id |-> id, order_number |-> order_number, customer_id |-> customer.id,
     status |-> "created",
     total_amount |-> product.price + (product.price \div 10)]

OrderRow(id, order_number, customer, product) ==
    [id |-> id, order_number |-> order_number, customer_id |-> customer.id,
     status |-> "created", total_amount |-> product.price]

OrderItemRow(id, order_id, product) ==
    [id |-> id, order_id |-> order_id, product_id |-> product.id,
     quantity |-> 1, unit_price |-> product.price,
     total_price |-> product.price]

\* mutant: the payment is opened for the whole stock on hand
PaymentRow_WholeStock(id, order_id, product, payment_id) ==
    [id |-> id, order_id |-> order_id, status |-> "pending",
     amount |-> product.price * product.stock_quantity,
     paypal_payment_id |-> payment_id,
     paypal_payer_id |-> NoneStr, transaction_id |-> NoneTok,
     completed_at |-> NoneInt]

PaymentRow(id, order_id, product, payment_id) ==
    [id |-> id, order_id |-> order_id, status |-> "pending",
     amount |-> product.price, paypal_payment_id |-> payment_id,
     paypal_payer_id |-> NoneStr, transaction_id |-> NoneTok,
     completed_at |-> NoneInt]

\* app/models.py PayPalPaymentRequest
PayPalPaymentRequest(product_id, c) ==
    [product_id |-> product_id, customer_email |-> c.email,
     customer_first_name |-> c.first_name,
     customer_last_name |-> c.last_name, phone |-> c.phone]

\* the arguments create_paypal_payment passes to get_or_create_customer
CustomerArgs(request) ==
    [email |-> request.customer_email,
     first_name |-> request.customer_first_name,
     last_name |-> request.customer_last_name, phone |-> request.phone]

\* the product lookup and the three checks
purchase(t, request) ==
    /\ Enter(t)
    /\ LET product == get_product_by_id(request.product_id) IN
       IF Purchasable(product)
       THEN Goto(t, [pc |-> "customer_select", op |-> "purchase",
                     args |-> request, req |-> CustomerArgs(request),
                     product |-> product,
                     customer |-> NoneVal, order |-> NoneVal,
                     loaded |-> NoneVal,
                     payment_id |-> NoneTok, base |-> Base])
       ELSE Returns(t, "purchase", request, NoneVal)
    /\ UNCHANGED <<tables, uuidCount, clock, created, handles, lastCall>>

\* the order numbers draw u can be formatted to: a number not seen before,
\* or, its first 8 hexadecimal digits repeating an earlier draw's, the
\* number of a stored order
OrderNumbers(ords, u) ==
    {OrderNumber(u)} \cup {ords[i].order_number : i \in Ids(ords)}

\* Order.order_number is unique: the INSERT of a stored number is refused
OrderNumberUnique(ords, order_number) ==
    \A i \in Ids(ords) : ords[i].order_number # order_number

\* where a call goes once create_order has raised (ValueError of an id
\* check, IntegrityError of the refused INSERT): the except
\* clause of create_paypal_payment returns None, a direct caller sees the
\* exception
OrderRaised(t) ==
    IF frame[t].op = "purchase"
    THEN Returns(t, "purchase", frame[t].args, NoneVal)
    ELSE Returns(t, "create_order", frame[t].args, Raised)

\* where a call goes once create_order has returned order: the second
\* commit is followed by no refresh, so with expire_on_commit the caller
\* holds an expired object of a closed session
OrderCreated(t, order) ==
    IF frame[t].op = "purchase"
    THEN Goto(t, [frame[t] EXCEPT !.pc = "create_payment"])
    ELSE Returns(t, "create_order", frame[t].args,
                 IF expire_on_commit THEN Expired ELSE RowVal(order))

\* create_order up to its first commit: the customer.id check and the Order
\* row
create_order(t) ==
    /\ frame[t].pc = "create_order"
    /\ calls' = calls
    /\ IF frame[t].customer.id = NoneInt
       THEN /\ orders' = orders
            /\ OrderRaised(t)
       ELSE \E order_number \in OrderNumbers(orders, uuidCount + 1) :
            LET order == OrderRow(Len(orders) + 1, order_number,
                                  frame[t].customer, frame[t].product) IN
            IF OrderNumberUnique(orders, order_number)
            THEN /\ orders' = Append(orders, order)
                 /\ Goto(t, [frame[t] EXCEPT !.pc = "create_order_item",
                                             !.order = order])
            ELSE /\ orders' = orders
                 /\ OrderRaised(t)
    /\ uuidCount' = uuidCount + 1
    /\ UNCHANGED <<products, customers, order_items, payments, clock, created, handles, lastCall>>

\* mutant: the line takes one unit off the product's stock
create_order_item_TakesStock(t) ==
    /\ frame[t].pc = "create_order_item"
    /\ calls' = calls
    /\ order_items' = Append(order_items,
            OrderItemRow(Len(order_items) + 1, frame[t].order.id,
                         frame[t].product))
    /\ products' = [products EXCEPT ![frame[t].product.id].stock_quantity
                                       = @ - 1]
    /\ OrderCreated(t, frame[t].order)
    /\ UNCHANGED <<customers, orders, payments, uuidCount,
                   clock, created, handles, lastCall>>

\* mutant: the product.id check is missing
create_order_item_NoIdCheck(t) ==
    /\ frame[t].pc = "create_order_item"
    /\ calls' = calls
    /\ order_items' = Append(order_items,
            OrderItemRow(Len(order_items) + 1, frame[t].order.id,
                         frame[t].product))
    /\ OrderCreated(t, frame[t].order)
    /\ UNCHANGED <<products, customers, orders, payments, uuidCount,
                   clock, created, handles, lastCall>>

\* create_order from its first commit to its second: the product.id check
\* and the OrderItem row
create_order_item(t) ==
    /\ frame[t].pc = "create_order_item"
    /\ calls' = calls
    /\ IF frame[t].product.id = NoneInt
       THEN /\ order_items' = order_items
            /\ OrderRaised(t)
       ELSE /\ order_items' = Append(order_items,
                   OrderItemRow(Len(order_items) + 1, frame[t].order.id,
                                frame[t].product))
            /\ OrderCreated(t, frame[t].order)
    /\ UNCHANGED <<products, customers, orders, payments, uuidCount,
                   clock, created, handles, lastCall>>

\* mutant: the Payment row is stored twice
create_payment_TwoAttempts(t) ==
    /\ frame[t].pc = "create_payment"
    /\ calls' = calls
    /\ LET payment_id == PaymentId(uuidCount + 1) IN
       /\ payments' = Append(Append(payments,
              PaymentRow(Len(payments) + 1, frame[t].order.id,
                         frame[t].product, payment_id)),
              PaymentRow(Len(payments) + 2, frame[t].order.id,
                         frame[t].product, payment_id))
       /\ Goto(t, [frame[t] EXCEPT !.pc = "payment_get_order",
                                   !.payment_id = payment_id])
    /\ uuidCount' = uuidCount + 1
    /\ UNCHANGED <<products, customers, orders, order_items, clock, created, handles, lastCall>>

\* the payment id, the read of order.id and the Payment row: on an expired
\* order the read raises, the except clause logs and returns None
create_payment(t) ==
    /\ frame[t].pc = "create_payment"
    /\ calls' = calls
    /\ IF expire_on_commit
       THEN /\ payments' = payments
            /\ Returns(t, "purchase", frame[t].args, NoneVal)
       ELSE LET payment_id == PaymentId(uuidCount + 1) IN
            /\ payments' = Append(payments,
                   PaymentRow(Len(payments) + 1, frame[t].order.id,
                              frame[t].product, payment_id))
            /\ Goto(t, [frame[t] EXCEPT !.pc = "payment_get_order",
                                        !.payment_id = payment_id])
    /\ uuidCount' = uuidCount + 1
    /\ UNCHANGED <<products, customers, orders, order_items, clock, created, handles, lastCall>>

PayPalPaymentResponse(payment_id, order_id) ==
    [payment_id |-> payment_id, order_id |-> order_id, status |-> "pending"]

\* the UPDATE a commit emits for an object loaded earlier: SQLAlchemy writes
\* only the columns whose assigned value differs from the loaded one, onto
\* the row as it is stored at the commit
Flushed(stored, loaded, assigned) ==
    [c \in DOMAIN stored |->
        IF assigned[c] # loaded[c] THEN assigned[c] ELSE stored[c]]

\* the "orders" table after the commit of update_order_status on an Order
\* loaded as `loaded`
OrderCommitted(loaded, status) ==
    [orders EXCEPT ![loaded.id] =
        Flushed(@, loaded,
                update_order_status([orders EXCEPT ![loaded.id] = loaded],
                                    loaded.id, status)[loaded.id])]

\* `if payment.order_id is not None` and session.get(Order, order_id) of
\* update_order_status
LoadedOrder(order_id) ==
    IF order_id = NoneInt THEN NoneVal ELSE get_order_by_id(order_id)

\* update_order_status(order.id, PAYMENT_PENDING): the Order is loaded
payment_get_order(t) ==
    /\ frame[t].pc = "payment_get_order"
    /\ calls' = calls
    /\ LET order == LoadedOrder(frame[t].order.id) IN
       IF order = NoneVal
       THEN Goto(t, [frame[t] EXCEPT !.pc = "purchase_return"])
       ELSE Goto(t, [frame[t] EXCEPT !.pc = "payment_pending",
                                     !.loaded = order])
    /\ UNCHANGED <<tables, uuidCount, clock, created, handles, lastCall>>

\* mutant: the order is not moved to PAYMENT_PENDING
payment_pending_NoUpdate(t) ==
    /\ frame[t].pc = "payment_pending"
    /\ calls' = calls
    /\ orders' = orders
    /\ Goto(t, [frame[t] EXCEPT !.pc = "purchase_return"])
    /\ UNCHANGED <<products, customers, order_items, payments, uuidCount,
                   clock, created, handles, lastCall>>

\* update_order_status: order.status = PAYMENT_PENDING and session.commit()
payment_pending(t) ==
    /\ frame[t].pc = "payment_pending"
    /\ calls' = calls
    /\ orders' = OrderCommitted(frame[t].loaded, "payment_pending")
    /\ Goto(t, [frame[t] EXCEPT !.pc = "purchase_return"])
    /\ UNCHANGED <<products, customers, order_items, payments, uuidCount,
                   clock, created, handles, lastCall>>

\* return PayPalPaymentResponse(...)
purchase_return(t) ==
    /\ frame[t].pc = "purchase_return"
    /\ calls' = calls
    /\ LET response == PayPalPaymentResponse(frame[t].payment_id,
                                             frame[t].order.id) IN
       /\ handles' = handles \cup {response}
       /\ Returns(t, "purchase", frame[t].args, HandleVal(response))
    /\ UNCHANGED <<tables, uuidCount, clock, created, lastCall>>

----------------------------------------------------------------------------
(* PaymentService.complete_paypal_payment *)
(* Each database round trip of the call is a step: the SELECT of the       *)
(* Payment, its commit, session.get of the Order, its commit, the return.  *)

\* mutant: the payer id is not recorded
CompletedPayment_NoPayer(payment, payer_id, now, u) ==
    [payment EXCEPT !.status = "completed",
                    !.completed_at = now,
                    !.transaction_id = TransactionId(u)]

\* the assignments to the loaded Payment row
CompletedPayment(payment, payer_id, now, u) ==
    [payment EXCEPT !.status = "completed",
                    !.paypal_payer_id = payer_id,
                    !.completed_at = now,
                    !.transaction_id = TransactionId(u)]

\* mutant: only a pending payment can be completed
complete_paypal_payment_OnlyPending(t, payment_id, payer_id) ==
    /\ Enter(t)
    /\ LET payment == get_payment_by_id(payment_id)
           args == [payment_id |-> payment_id, payer_id |-> payer_id]
       IN  IF payment = NoneVal \/ payment.status # "pending"
           THEN Returns(t, "complete", args, BoolVal(FALSE))
           ELSE Goto(t, [pc |-> "complete_commit", op |-> "complete",
                         args |-> args, payment |-> payment])
    /\ UNCHANGED <<tables, uuidCount, clock, created, handles, lastCall>>

\* the SELECT of the Payment by its provider id
complete_paypal_payment(t, payment_id, payer_id) ==
    /\ Enter(t)
    /\ LET payment == get_payment_by_id(payment_id)
           args == [payment_id |-> payment_id, payer_id |-> payer_id]
       IN  IF payment = NoneVal
           THEN Returns(t, "complete", args, BoolVal(FALSE))
           ELSE Goto(t, [pc |-> "complete_commit", op |-> "complete",
                         args |-> args, payment |-> payment])
    /\ UNCHANGED <<tables, uuidCount, clock, created, handles, lastCall>>

\* the assignments to the loaded Payment and session.commit()
complete_commit(t) ==
    /\ frame[t].pc = "complete_commit"
    /\ calls' = calls
    /\ clock' = clock + 1
    /\ uuidCount' = uuidCount + 1
    /\ payments' = [payments EXCEPT ![frame[t].payment.id] =
           Flushed(@, frame[t].payment,
                   CompletedPayment(frame[t].payment, frame[t].args.payer_id,
                                    clock + 1, uuidCount + 1))]
    /\ Goto(t, [pc |-> "complete_get_order", op |-> "complete",
                args |-> frame[t].args,
                order_id |-> frame[t].payment.order_id])
    /\ UNCHANGED <<products, customers, orders, order_items, created,
                   handles, lastCall>>

\* update_order_status(payment.order_id, PAID): the Order is loaded
complete_get_order(t) ==
    /\ frame[t].pc = "complete_get_order"
    /\ calls' = calls
    /\ LET order == LoadedOrder(frame[t].order_id) IN
       IF order = NoneVal
       THEN Goto(t, [pc |-> "complete_return", op |-> "complete",
                     args |-> frame[t].args])
       ELSE Goto(t, [pc |-> "complete_order", op |-> "complete",
                     args |-> frame[t].args, order |-> order])
    /\ UNCHANGED <<tables, uuidCount, clock, created, handles, lastCall>>

\* mutant: a completed payment sends the order on to processing
complete_order_Processing(t) ==
    /\ frame[t].pc = "complete_order"
    /\ calls' = calls
    /\ orders' = OrderCommitted(frame[t].order, "processing")
    /\ Goto(t, [pc |-> "complete_return", op |-> "complete",
                args |-> frame[t].args])
    /\ UNCHANGED <<products, customers, order_items, payments, uuidCount,
                   clock, created, handles, lastCall>>

\* update_order_status: order.status = PAID and session.commit()
complete_order(t) ==
    /\ frame[t].pc = "complete_order"
    /\ calls' = calls
    /\ orders' = OrderCommitted(frame[t].order, "paid")
    /\ Goto(t, [pc |-> "complete_return", op |-> "complete",
                args |-> frame[t].args])
    /\ UNCHANGED <<products, customers, order_items, payments, uuidCount,
                   clock, created, handles, lastCall>>

\* return True
complete_return(t) ==
    /\ frame[t].pc = "complete_return"
    /\ calls' = calls
    /\ Returns(t, "complete", frame[t].args, BoolVal(TRUE))
    /\ lastCall' = Noted(frame[t].args.payment_id, "complete")
    /\ UNCHANGED <<tables, uuidCount, clock, created, handles>>

----------------------------------------------------------------------------
(* PaymentService.cancel_paypal_payment, step by step as complete *)

\* mutant: cancelling wipes the completion data
CancelledPayment_ClearsCompletion(payment) ==
    [payment EXCEPT !.status = "cancelled",
                    !.paypal_payer_id = NoneStr,
                    !.transaction_id = NoneTok,
                    !.completed_at = NoneInt]

\* the assignment to the loaded Payment row
CancelledPayment(payment) ==
    [payment EXCEPT !.status = "cancelled"]

\* mutant: a completed payment cannot be cancelled
cancel_paypal_payment_RejectsCompleted(t, payment_id) ==
    /\ Enter(t)
    /\ LET payment == get_payment_by_id(payment_id) IN
       IF payment = NoneVal \/ payment.status = "completed"
       THEN Returns(t, "cancel", [payment_id |-> payment_id], BoolVal(FALSE))
       ELSE Goto(t, [pc |-> "cancel_commit", op |-> "cancel",
                     args |-> [payment_id |-> payment_id],
                     payment |-> payment])
    /\ UNCHANGED <<tables, uuidCount, clock, created, handles, lastCall>>

\* the SELECT of the Payment by its provider id
cancel_paypal_payment(t, payment_id) ==
    /\ Enter(t)
    /\ LET payment == get_payment_by_id(payment_id) IN
       IF payment = NoneVal
       THEN Returns(t, "cancel", [payment_id |-> payment_id], BoolVal(FALSE))
       ELSE Goto(t, [pc |-> "cancel_commit", op |-> "cancel",
                     args |-> [payment_id |-> payment_id],
                     payment |-> payment])
    /\ UNCHANGED <<tables, uuidCount, clock, created, handles, lastCall>>

\* the assignment to the loaded Payment and session.commit()
cancel_commit(t) ==
    /\ frame[t].pc = "cancel_commit"
    /\ calls' = calls
    /\ payments' = [payments EXCEPT ![frame[t].payment.id] =
           Flushed(@, frame[t].payment, CancelledPayment(frame[t].payment))]
    /\ Goto(t, [pc |-> "cancel_get_order", op |-> "cancel",
                args |-> frame[t].args,
                order_id |-> frame[t].payment.order_id])
    /\ UNCHANGED <<products, customers, orders, order_items, uuidCount,
                   clock, created, handles, lastCall>>

\* update_order_status(payment.order_id, CANCELLED): the Order is loaded
cancel_get_order(t) ==
    /\ frame[t].pc = "cancel_get_order"
    /\ calls' = calls
    /\ LET order == LoadedOrder(frame[t].order_id) IN
       IF order = NoneVal
       THEN Goto(t, [pc |-> "cancel_return", op |-> "cancel",
                     args |-> frame[t].args])
       ELSE Goto(t, [pc |-> "cancel_order", op |-> "cancel",
                     args |-> frame[t].args, order |-> order])
    /\ UNCHANGED <<tables, uuidCount, clock, created, handles, lastCall>>

\* mutant: a paid order is not cancelled
cancel_order_KeepsPaid(t) ==
    /\ frame[t].pc = "cancel_order"
    /\ calls' = calls
    /\ orders' = IF frame[t].order.status # "paid"
                 THEN OrderCommitted(frame[t].order, "cancelled")
                 ELSE orders
    /\ Goto(t, [pc |-> "cancel_return", op |-> "cancel",
                args |-> frame[t].args])
    /\ UNCHANGED <<products, customers, order_items, payments, uuidCount,
                   clock, created, handles, lastCall>>

\* mutant: the most recent order is cancelled instead of the payment's order
cancel_order_LatestOrder(t) ==
    /\ frame[t].pc = "cancel_order"
    /\ calls' = calls
    /\ orders' = update_order_status(orders, Len(orders), "cancelled")
    /\ Goto(t, [pc |-> "cancel_return", op |-> "cancel",
                args |-> frame[t].args])
    /\ UNCHANGED <<products, customers, order_items, payments, uuidCount,
                   clock, created, handles, lastCall>>

\* update_order_status: order.status = CANCELLED and session.commit()
cancel_order(t) ==
    /\ frame[t].pc = "cancel_order"
    /\ calls' = calls
    /\ orders' = OrderCommitted(frame[t].order, "cancelled")
    /\ Goto(t, [pc |-> "cancel_return", op |-> "cancel",
                args |-> frame[t].args])
    /\ UNCHANGED <<products, customers, order_items, payments, uuidCount,
                   clock, created, handles, lastCall>>

\* return True
cancel_return(t) ==
    /\ frame[t].pc = "cancel_return"
    /\ calls' = calls
    /\ Returns(t, "cancel", frame[t].args, BoolVal(TRUE))
    /\ lastCall' = Noted(frame[t].args.payment_id, "cancel")
    /\ UNCHANGED <<tables, uuidCount, clock, created, handles>>

----------------------------------------------------------------------------
(* Specifications *)

\* the payments and the lines stored for an order
PaymentsOf(order_id) ==
    {p \in Ids(payments) : payments[p].order_id = order_id}

ItemsOf(order_id) ==
    {k \in Ids(order_items) : order_items[k].order_id = order_id}

\* the payment ids handed out by successful purchases
HandleIds == {h.payment_id : h \in handles}

\* payment ids a caller may pass: the issued ones and one never issued
PaymentIds ==
    {payments[i].paypal_payment_id : i \in Ids(payments)} \cup {UnknownPaymentId}

\* product ids a caller may pass: the assigned ones and the next, unassigned
ProductIds == 1..(Len(products) + 1)

\* a worker starts a call
Call(t) ==
    \/ \E d \in ProductInputs : create_product(t, d)
    \/ \E c \in CustomerInputs : get_or_create_customer(t, c)
    \/ \E product_id \in ProductIds, c \in CustomerInputs :
          purchase(t, PayPalPaymentRequest(product_id, c))
    \/ \E payment_id \in PaymentIds, payer_id \in PayerIds :
          complete_paypal_payment(t, payment_id, payer_id)
    \/ \E payment_id \in PaymentIds : cancel_paypal_payment(t, payment_id)

\* a worker takes the next step of the purchase, complete or cancel call
\* it is in, or of the select and insert of get_or_create_customer
CheckoutStep(t) ==
    \/ customer_select(t)
    \/ customer_insert(t)
    \/ create_order(t)
    \/ create_order_item(t)
    \/ create_payment(t)
    \/ payment_get_order(t)
    \/ payment_pending(t)
    \/ purchase_return(t)
    \/ complete_commit(t)
    \/ complete_get_order(t)
    \/ complete_order(t)
    \/ complete_return(t)
    \/ cancel_commit(t)
    \/ cancel_get_order(t)
    \/ cancel_order(t)
    \/ cancel_return(t)

\* the steps of every call in progress: those above and the return of a
\* direct get_or_create_customer call
Step(t) == CheckoutStep(t) \/ customer_return(t)

\* one worker: every call runs to completion before the next starts
Next == Call("w1") \/ Step("w1")

Spec == Init /\ [][Next]_vars

\* The catalog holds one purchasable product and two workers serve the
\* storefront calls, interleaved at every step of a call.
InitConc ==
    /\ expire_on_commit \in SessionSettings
    /\ products = <<ProductRow(1, CoreTestProduct)>>
    /\ customers = <<>>
    /\ orders = <<>>
    /\ order_items = <<>>
    /\ payments = <<>>
    /\ uuidCount = 0
    /\ clock = 0
    /\ frame = [t \in Workers |-> Idle]
    /\ ret = [op |-> "none", args |-> NoneVal, val |-> NoneVal]
    /\ handles = {}
    /\ created = <<CoreTestProduct>>
    /\ lastCall = [x \in {} |-> "none"]
    /\ calls = MaxConcCalls

CallConc(t) ==
    \/ \E c \in ConcCustomerInputs : get_or_create_customer(t, c)
    \/ \E product_id \in ProductIds, c \in ConcCustomerInputs :
          purchase(t, PayPalPaymentRequest(product_id, c))
    \/ \E payment_id \in PaymentIds, payer_id \in PayerIds :
          complete_paypal_payment(t, payment_id, payer_id)
    \/ \E payment_id \in PaymentIds : cancel_paypal_payment(t, payment_id)

NextConc == \E t \in Workers : CallConc(t) \/ Step(t)

SpecConc == InitConc /\ [][NextConc]_vars

----------------------------------------------------------------------------
(* DataSeederService.seed_sample_products, and the catalog specification:   *)
(* the administrator creates products and the start-up hook seeds.          *)

\* a bound: a behaviour of SpecSeed holds at most this many calls
MaxSeedCalls == 3

\* the sample_products list
SampleProducts ==
    << [price |-> 129999, stock_quantity |-> 50, is_active |-> TRUE,
        sku |-> "WEB-DEV-PRO", category |-> "Web Development"],
       [price |-> 249999, stock_quantity |-> 25, is_active |-> TRUE,
        sku |-> "SOFT-DEV-CUSTOM", category |-> "Software Development"],
       [price |-> 89999,  stock_quantity |-> 30, is_active |-> TRUE,
        sku |-> "DB-DESIGN-OPT", category |-> "Database Services"],
       [price |-> 319999, stock_quantity |-> 15, is_active |-> TRUE,
        sku |-> "MOBILE-DEV-CROSS", category |-> "Mobile Development"],
       [price |-> 179999, stock_quantity |-> 20, is_active |-> TRUE,
        sku |-> "CLOUD-INFRA-SETUP", category |-> "Cloud Services"],
       [price |-> 159999, stock_quantity |-> 35, is_active |-> TRUE,
        sku |-> "API-DEV-INTEG", category |-> "Web Development"],
       [price |-> 289999, stock_quantity |-> 12, is_active |-> TRUE,
        sku |-> "ECOM-SOLUTION", category |-> "Web Development"],
       [price |-> 219999, stock_quantity |-> 18, is_active |-> TRUE,
        sku |-> "DEVOPS-AUTO-PKG", category |-> "DevOps"] >>

\* what the administrator creates in the catalog specification: the product
\* inputs above and a hidden product that carries the sku of a sample
SeedProductInputs ==
    ProductInputs \cup
    { [price |-> 5000, stock_quantity |-> 0, is_active |-> FALSE,
       sku |-> "DB-DESIGN-OPT", category |-> "Database Services"] }

\* the existence check; the loop starts when no active product is listed
seed_sample_products(t) ==
    /\ Enter(t)
    /\ LET existing_products == get_all_active_products IN
       IF Len(existing_products) > 0
       THEN Returns(t, "seed_sample_products", NoneVal, NoneVal)
       ELSE Goto(t, [pc |-> "seed_product", op |-> "seed_sample_products",
                     args |-> NoneVal, k |-> 1, catalog |-> products])
    /\ UNCHANGED <<tables, uuidCount, clock, created, handles, lastCall>>

\* one round of the loop: create_product(sample_products[k]), an exception
\* of which is logged and the loop goes on
seed_product(t) ==
    /\ frame[t].pc = "seed_product"
    /\ calls' = calls
    /\ LET product_data == SampleProducts[frame[t].k] IN
       IF SkuUnique(product_data.sku)
       THEN /\ products' = Append(products,
                                  ProductRow(Len(products) + 1, product_data))
            /\ created' = Append(created, product_data)
       ELSE /\ products' = products
            /\ created' = created
    /\ IF frame[t].k = Len(SampleProducts)
       THEN Returns(t, "seed_sample_products", NoneVal, NoneVal)
       ELSE Goto(t, [frame[t] EXCEPT !.k = frame[t].k + 1])
    /\ UNCHANGED <<customers, orders, order_items, payments, uuidCount,
                   clock, handles, lastCall>>

InitSeed ==
    /\ expire_on_commit \in SessionSettings
    /\ products = <<>>
    /\ customers = <<>>
    /\ orders = <<>>
    /\ order_items = <<>>
    /\ payments = <<>>
    /\ uuidCount = 0
    /\ clock = 0
    /\ frame = [t \in Workers |-> Idle]
    /\ ret = [op |-> "none", args |-> NoneVal, val |-> NoneVal]
    /\ handles = {}
    /\ created = <<>>
    /\ lastCall = [x \in {} |-> "none"]
    /\ calls = MaxSeedCalls

CallSeed(t) ==
    \/ \E d \in SeedProductInputs : create_product(t, d)
    \/ seed_sample_products(t)

NextSeed == CallSeed("w1") \/ seed_product("w1")

SpecSeed == InitSeed /\ [][NextSeed]_vars

----------------------------------------------------------------------------
(* OrderService called directly, and the order-desk specification: the     *)
(* database holds a product and a customer; one caller runs the checkout    *)
(* calls and the two OrderService writes.                                   *)

\* a bound: a behaviour of SpecOrders holds at most this many calls
MaxOrderCalls == 3

\* Customer(...) and Product(...) built by the caller and never added to a
\* session: their id is None
TransientCustomer == CustomerRow(NoneInt, OtherCustomer)
TransientProduct ==
    ProductRow(NoneInt, [price |-> 2500, stock_quantity |-> 1,
                         is_active |-> TRUE, sku |-> NoneStr,
                         category |-> "Web Development"])

\* the customer and product objects a caller may pass to create_order
CustomerObjects == {customers[i] : i \in Ids(customers)} \cup {TransientCustomer}
ProductObjects == {products[i] : i \in Ids(products)} \cup {TransientProduct}

\* OrderService.create_order(customer, product, shipping_data), called
\* directly; its body is create_order and create_order_item above
create_order_call(t, customer, product) ==
    /\ Enter(t)
    /\ Goto(t, [pc |-> "create_order", op |-> "create_order",
                args |-> [customer |-> customer, product |-> product],
                customer |-> customer, product |-> product,
                order |-> NoneVal, base |-> Base])
    /\ UNCHANGED <<tables, uuidCount, clock, created, handles, lastCall>>

\* OrderService.update_order_status(order_id, status), called directly;
\* one step, as the one worker of SpecOrders has no other call between the
\* load and the commit
update_order_status_call(t, order_id, status) ==
    /\ Enter(t)
    /\ LET order == get_order_by_id(order_id)
           updated == update_order_status(orders, order_id, status)
       IN  IF order = NoneVal
           THEN /\ orders' = orders
                /\ Returns(t, "update_order_status",
                           [order_id |-> order_id, status |-> status], NoneVal)
           ELSE /\ orders' = updated
                /\ Returns(t, "update_order_status",
                           [order_id |-> order_id, status |-> status],
                           RowVal(updated[order_id]))
    /\ UNCHANGED <<products, customers, order_items, payments, uuidCount,
                   clock, created, handles, lastCall>>

\* order ids a caller may pass: the assigned ones and the next, unassigned
OrderIds == 1..(Len(orders) + 1)

InitOrders ==
    /\ expire_on_commit \in SessionSettings
    /\ products = <<ProductRow(1, CoreTestProduct)>>
    /\ customers = <<CustomerRow(1, FirstCustomer)>>
    /\ orders = <<>>
    /\ order_items = <<>>
    /\ payments = <<>>
    /\ uuidCount = 0
    /\ clock = 0
    /\ frame = [t \in Workers |-> Idle]
    /\ ret = [op |-> "none", args |-> NoneVal, val |-> NoneVal]
    /\ handles = {}
    /\ created = <<CoreTestProduct>>
    /\ lastCall = [x \in {} |-> "none"]
    /\ calls = MaxOrderCalls

CallOrders(t) ==
    \/ \E product_id \in ProductIds, c \in ConcCustomerInputs :
          purchase(t, PayPalPaymentRequest(product_id, c))
    \/ \E payment_id \in PaymentIds, payer_id \in PayerIds :
          complete_paypal_payment(t, payment_id, payer_id)
    \/ \E payment_id \in PaymentIds : cancel_paypal_payment(t, payment_id)
    \/ \E customer \in CustomerObjects, product \in ProductObjects :
          create_order_call(t, customer, product)
    \/ \E order_id \in OrderIds, status \in OrderStatus :
          update_order_status_call(t, order_id, status)

NextOrders == CallOrders("w1") \/ CheckoutStep("w1")

SpecOrders == InitOrders /\ [][NextOrders]_vars

----------------------------------------------------------------------------
(* The checkout specification with a failing store: the commit of the      *)
(* Payment row may raise (the database refuses or is unreachable), which    *)
(* the except clause of create_paypal_payment turns into None.              *)

\* a bound: a behaviour of SpecFault holds at most this many calls
MaxFaultCalls == 4

\* mutant: the except clause cancels the order it leaves behind
create_payment_fails_Compensates(t) ==
    /\ frame[t].pc = "create_payment"
    /\ calls' = calls
    /\ orders' = update_order_status(orders, frame[t].order.id, "cancelled")
    /\ uuidCount' = uuidCount + 1
    /\ Returns(t, "purchase", frame[t].args, NoneVal)
    /\ UNCHANGED <<products, customers, order_items, payments, clock,
                   created, handles, lastCall>>

\* session.commit() of the Payment row raises: nothing is written, the
\* except clause logs and returns None
create_payment_fails(t) ==
    /\ frame[t].pc = "create_payment"
    /\ calls' = calls
    /\ uuidCount' = uuidCount + 1
    /\ Returns(t, "purchase", frame[t].args, NoneVal)
    /\ UNCHANGED <<tables, clock, created, handles, lastCall>>

InitFault ==
    /\ expire_on_commit \in SessionSettings
    /\ products = <<ProductRow(1, CoreTestProduct)>>
    /\ customers = <<>>
    /\ orders = <<>>
    /\ order_items = <<>>
    /\ payments = <<>>
    /\ uuidCount = 0
    /\ clock = 0
    /\ frame = [t \in Workers |-> Idle]
    /\ ret = [op |-> "none", args |-> NoneVal, val |-> NoneVal]
    /\ handles = {}
    /\ created = <<CoreTestProduct>>
    /\ lastCall = [x \in {} |-> "none"]
    /\ calls = MaxFaultCalls

NextFault == CallConc("w1") \/ Step("w1") \/ create_payment_fails("w1")

SpecFault == InitFault /\ [][NextFault]_vars

----------------------------------------------------------------------------
(* The checkout form of the storefront (app/store.py) and the storefront    *)
(* specification.  The text of an input is a sequence of characters, so     *)
(* that str.strip() and the truth value of a str are what Python computes.  *)
(* The two app.storage.user entries written after a successful call repeat  *)
(* the response (kept in handles) and are read by no service operation.     *)

\* a bound: a behaviour of SpecStore holds at most this many calls
MaxStoreCalls == 2

\* the characters str.strip() removes, those for which str.isspace() holds;
\* a character without a TLA+ escape is written by its code point
Whitespace ==
    {" ", "\t", "\n", "\r", "\f", "U+000B", "U+001C", "U+001D", "U+001E",
     "U+001F", "U+0085", "U+00A0", "U+1680", "U+2000", "U+2001", "U+2002",
     "U+2003", "U+2004", "U+2005", "U+2006", "U+2007", "U+2008", "U+2009",
     "U+200A", "U+2028", "U+2029", "U+202F", "U+205F", "U+3000"}

\* str.strip(): leading and trailing whitespace removed
RECURSIVE LStrip(_)
LStrip(text) ==
    IF text # <<>> /\ Head(text) \in Whitespace
    THEN LStrip(Tail(text))
    ELSE text

RECURSIVE RStrip(_)
RStrip(text) ==
    IF text # <<>> /\ text[Len(text)] \in Whitespace
    THEN RStrip(SubSeq(text, 1, Len(text) - 1))
    ELSE text

strip(text) == RStrip(LStrip(text))

\* the inputs process_payment requires
RequiredInputs ==
    {"customer_email", "customer_first_name", "customer_last_name",
     "shipping_address1", "shipping_city", "shipping_state",
     "shipping_postal", "shipping_country"}

\* a filled-in form
FilledForm ==
    [customer_email |-> <<"j", "@", "x">>,
     customer_first_name |-> <<"J", "o">>,
     customer_last_name |-> <<" ", "D", "o", "e", " ">>,
     shipping_address1 |-> <<"1", " ", "M", "a", "i", "n">>,
     shipping_address2 |-> <<>>,
     shipping_city |-> <<"N", "Y">>,
     shipping_state |-> <<"N", "Y">>,
     shipping_postal |-> <<"1", "0">>,
     shipping_country |-> <<"U", "S">>,
     customer_phone |-> <<>>]

\* a text of n digits
Digits(n) == [i \in 1..n |-> "9"]

\* a text over the limit of the field it is typed into, or at the limit
\* once stripped
LongForms ==
    {[FilledForm EXCEPT !.shipping_postal = Digits(21)],
     [FilledForm EXCEPT !.shipping_postal = <<" ">> \o Digits(20)],
     [FilledForm EXCEPT !.customer_phone = Digits(21)],
     [FilledForm EXCEPT !.shipping_city = Digits(101)]}

\* what a visitor may submit: the filled-in form, the same with one
\* required input left empty or holding whitespace only, with whitespace
\* other than blanks around a name, or with a text at or over a limit
Forms ==
    {FilledForm} \cup
    {[FilledForm EXCEPT ![f] = text] :
        f \in RequiredInputs, text \in {<<>>, <<" ", " ">>}} \cup
    {[FilledForm EXCEPT !.customer_email = <<"\t", "\n">>],
     [FilledForm EXCEPT !.customer_last_name =
                            <<"\t", "D", "o", "e", "U+00A0", "\n">>]} \cup
    LongForms

\* all([...]) over the .value of the required inputs: a str is true when it
\* is not empty
AllFilled(form) == \A f \in RequiredInputs : form[f] # <<>>

\* None in an Optional text field of the request: no text, whose elements
\* are single characters, equals it
NoneText == <<NoneStr>>

\* PayPalPaymentRequest(...) as process_payment builds it
CheckoutRequest(product_id, form) ==
    [product_id |-> product_id,
     customer_email |-> strip(form.customer_email),
     customer_first_name |-> strip(form.customer_first_name),
     customer_last_name |-> strip(form.customer_last_name),
     shipping_address_line1 |-> strip(form.shipping_address1),
     shipping_address_line2 |->
         IF form.shipping_address2 # <<>>
         THEN strip(form.shipping_address2) ELSE NoneText,
     shipping_city |-> strip(form.shipping_city),
     shipping_state |-> strip(form.shipping_state),
     shipping_postal_code |-> strip(form.shipping_postal),
     shipping_country |-> strip(form.shipping_country),
     phone |-> IF form.customer_phone # <<>>
               THEN strip(form.customer_phone) ELSE NoneText]

\* Field(max_length=...) of the PayPalPaymentRequest fields
max_length ==
    [customer_email |-> 255,
     customer_first_name |-> 100,
     customer_last_name |-> 100,
     shipping_address_line1 |-> 255,
     shipping_address_line2 |-> 255,
     shipping_city |-> 100,
     shipping_state |-> 100,
     shipping_postal_code |-> 20,
     shipping_country |-> 100,
     phone |-> 20]

\* the validation run when a PayPalPaymentRequest is constructed: no text
\* is longer than its field allows (None passes in an Optional field)
ValidRequest(request) ==
    \A f \in DOMAIN max_length :
        request[f] # NoneText => Len(request[f]) <= max_length[f]

\* process_payment on the checkout page of product_id (a stored product,
\* whose id is set): the required-input check, the construction of the
\* request from the stripped values, which raises ValidationError out of
\* the handler when a text is too long, then create_paypal_payment
process_payment(t, product_id, form) ==
    IF ~AllFilled(form)
    THEN /\ Enter(t)
         /\ Returns(t, "process_payment", form, NoneVal)
         /\ UNCHANGED <<tables, uuidCount, clock, created, handles, lastCall>>
    ELSE IF ~ValidRequest(CheckoutRequest(product_id, form))
    THEN /\ Enter(t)
         /\ Returns(t, "process_payment", form, Raised)
         /\ UNCHANGED <<tables, uuidCount, clock, created, handles, lastCall>>
    ELSE purchase(t, CheckoutRequest(product_id, form))

InitStore ==
    /\ expire_on_commit \in SessionSettings
    /\ products = <<ProductRow(1, CoreTestProduct)>>
    /\ customers = <<>>
    /\ orders = <<>>
    /\ order_items = <<>>
    /\ payments = <<>>
    /\ uuidCount = 0
    /\ clock = 0
    /\ frame = [t \in Workers |-> Idle]
    /\ ret = [op |-> "none", args |-> NoneVal, val |-> NoneVal]
    /\ handles = {}
    /\ created = <<CoreTestProduct>>
    /\ lastCall = [x \in {} |-> "none"]
    /\ calls = MaxStoreCalls

\* the checkout page and the two buttons of the payment dialog
CallStore(t) ==
    \/ \E product_id \in Ids(products), form \in Forms :
          process_payment(t, product_id, form)
    \/ \E payment_id \in HandleIds, payer_id \in PayerIds :
          complete_paypal_payment(t, payment_id, payer_id)
    \/ \E payment_id \in HandleIds : cancel_paypal_payment(t, payment_id)

NextStore == CallStore("w1") \/ CheckoutStep("w1")

SpecStore == InitStore /\ [][NextStore]_vars

----------------------------------------------------------------------------
(* The payment-dialog specification: a purchase has returned its handle and *)
(* two workers serve complete and cancel calls on that payment id,          *)
(* interleaved at every load, commit and return.                            *)

\* a bound: a behaviour of SpecRace holds at most this many calls
MaxRaceCalls == 3

\* the state in which create_paypal_payment has just returned its first
\* handle for the core test product; it returns one only when sessions do
\* not expire objects at commit
InitRace ==
    LET product == ProductRow(1, CoreTestProduct)
        customer == CustomerRow(1, FirstCustomer)
        response == PayPalPaymentResponse(PaymentId(2), 1)
    IN  /\ products = <<product>>
        /\ customers = <<customer>>
        /\ orders = update_order_status(
                        <<OrderRow(1, OrderNumber(1), customer, product)>>,
                        1, "payment_pending")
        /\ order_items = <<OrderItemRow(1, 1, product)>>
        /\ payments = <<PaymentRow(1, 1, product, PaymentId(2))>>
        /\ uuidCount = 2
        /\ clock = 0
        /\ frame = [t \in Workers |-> Idle]
        /\ ret = [op |-> "purchase",
                  args |-> PayPalPaymentRequest(1, FirstCustomer),
                  val |-> HandleVal(response)]
        /\ handles = {response}
        /\ created = <<CoreTestProduct>>
        /\ lastCall = [x \in {} |-> "none"]
        /\ expire_on_commit = FALSE
        /\ calls = MaxRaceCalls

\* the two buttons of the payment dialog
CallRace(t) ==
    \/ \E payment_id \in HandleIds, payer_id \in PayerIds :
          complete_paypal_payment(t, payment_id, payer_id)
    \/ \E payment_id \in HandleIds : cancel_paypal_payment(t, payment_id)

\* the steps of complete and cancel calls
PaymentStep(t) ==
    \/ complete_commit(t)
    \/ complete_get_order(t)
    \/ complete_order(t)
    \/ complete_return(t)
    \/ cancel_commit(t)
    \/ cancel_get_order(t)
    \/ cancel_order(t)
    \/ cancel_return(t)

NextRace == \E t \in Workers : CallRace(t) \/ PaymentStep(t)

SpecRace == InitRace /\ [][NextRace]_vars

----------------------------------------------------------------------------
(* Properties of the checkout calls, checked under Spec *)

\* the requests a caller may pass
Requests ==
    {PayPalPaymentRequest(product_id, c) :
        product_id \in ProductIds, c \in CustomerInputs}

\* the call of worker t, an op call, returns in this step
ReturnsFrom(t, op) ==
    /\ frame[t].pc # "idle"
    /\ frame[t].op = op
    /\ frame'[t].pc = "idle"

\* C1: a purchase of an existing, active product with stock_quantity > 0, no
\* persistence step failing, returns a handle and has created exactly one
\* Order, PAYMENT_PENDING at the return, and exactly one OrderItem of that
\* order with quantity 1 and unit_price = total_price = the product's price.
\* A call that returns from the step of a refused commit (a repeated email
\* or order number) had a persistence step fail and is outside the claim.
\* (With sessions that expire objects at commit the purchase returns None
\* and leaves its Order CREATED.)
C1_PurchaseCreatesOneOrderOneItem ==
    [][\A t \in Workers :
        /\ \A request \in Requests :
              ( /\ purchase(t, request)
                /\ request.product_id \in Ids(products)
                /\ products[request.product_id].is_active
                /\ products[request.product_id].stock_quantity > 0 )
              => frame'[t].pc # "idle"
        /\ ( /\ ReturnsFrom(t, "purchase")
             /\ frame[t].pc \notin {"customer_insert", "create_order"}
             /\ products[frame[t].args.product_id].is_active
             /\ products[frame[t].args.product_id].stock_quantity > 0 )
           => LET b == frame[t].base
                  price == products[frame[t].args.product_id].price
              IN  /\ ret'.op = "purchase"
                  /\ ret'.val \in {HandleVal(h) : h \in handles'}
                  /\ Len(orders') = b.orders + 1
                  /\ orders'[b.orders + 1].status = "payment_pending"
                  /\ Len(order_items') = b.order_items + 1
                  /\ order_items'[b.order_items + 1].order_id
                        = orders'[b.orders + 1].id
                  /\ order_items'[b.order_items + 1].quantity = 1
                  /\ order_items'[b.order_items + 1].unit_price = price
                  /\ order_items'[b.order_items + 1].total_price = price
    ]_vars

\* C2: a purchase whose product is absent, inactive or has stock_quantity
\* <= 0 returns None without raising and writes nothing: the Customer,
\* Order, OrderItem and Payment tables are as before the call.
C2_RejectedPurchaseWritesNothing ==
    [][\A t \in Workers : \A request \in Requests :
          ( /\ purchase(t, request)
            /\ \/ request.product_id \notin Ids(products)
               \/ ~products[request.product_id].is_active
               \/ products[request.product_id].stock_quantity <= 0 )
          => /\ frame'[t].pc = "idle"
             /\ ret' = [op |-> "purchase", args |-> request, val |-> NoneVal]
             /\ customers' = customers
             /\ orders' = orders
             /\ order_items' = order_items
             /\ payments' = payments
    ]_vars

\* a purchase of an out-of-stock product of the catalog has just returned None
C2_Witness ==
    /\ frame["w1"].pc = "idle"
    /\ ret.op = "purchase"
    /\ ret.val = NoneVal
    /\ ret.args.product_id \in Ids(products)
    /\ products[ret.args.product_id].is_active
    /\ products[ret.args.product_id].stock_quantity = 0

\* C3: after a successful purchase, complete(payment_id, payer_id) with the
\* payment id of the returned handle returns true and leaves that Payment
\* COMPLETED with payer_id the argument, completed_at set and a non-empty
\* transaction id, and leaves the linked Order PAID.
C3_CompleteAfterPurchase ==
    [][\A t \in Workers :
        /\ \A payment_id \in HandleIds, payer_id \in PayerIds :
              complete_paypal_payment(t, payment_id, payer_id)
              => frame'[t].pc # "idle"
        /\ \A h \in handles :
              ( /\ ReturnsFrom(t, "complete")
                /\ frame[t].args.payment_id = h.payment_id )
              => /\ ret' = [op |-> "complete", args |-> frame[t].args,
                            val |-> BoolVal(TRUE)]
                 /\ \E i \in Ids(payments') :
                       /\ payments'[i].paypal_payment_id = h.payment_id
                       /\ payments'[i].order_id = h.order_id
                       /\ payments'[i].status = "completed"
                       /\ payments'[i].paypal_payer_id = frame[t].args.payer_id
                       /\ payments'[i].completed_at # NoneInt
                       /\ payments'[i].transaction_id # NoneTok
                 /\ orders'[h.order_id].status = "paid"
    ]_vars

\* complete has just returned true for the payment of a handle
C3_Witness ==
    /\ frame["w1"].pc = "idle"
    /\ ret.op = "complete"
    /\ ret.val = BoolVal(TRUE)
    /\ \E h \in handles :
          /\ ret.args.payment_id = h.payment_id
          /\ orders[h.order_id].status = "paid"

\* C4: cancel(payment_id) on an existing Payment returns true and leaves the
\* Payment CANCELLED and its Order CANCELLED, whatever their statuses were.
C4_CancelExistingPayment ==
    [][\A t \in Workers :
        /\ \A i \in Ids(payments) :
              cancel_paypal_payment(t, payments[i].paypal_payment_id)
              => frame'[t].pc # "idle"
        /\ \A i \in Ids(payments) :
              ( /\ ReturnsFrom(t, "cancel")
                /\ frame[t].args.payment_id = payments[i].paypal_payment_id )
              => /\ ret' = [op |-> "cancel", args |-> frame[t].args,
                            val |-> BoolVal(TRUE)]
                 /\ payments'[i].status = "cancelled"
                 /\ orders'[payments[i].order_id].status = "cancelled"
    ]_vars

\* cancel has just returned true for a payment that had been completed
C4_Witness ==
    /\ frame["w1"].pc = "idle"
    /\ ret.op = "cancel"
    /\ ret.val = BoolVal(TRUE)
    /\ \E i \in Ids(payments) :
          /\ payments[i].paypal_payment_id = ret.args.payment_id
          /\ payments[i].status = "cancelled"
          /\ payments[i].transaction_id # NoneTok
          /\ orders[payments[i].order_id].status = "cancelled"

\* C5: complete and cancel with a payment id that matches no Payment return
\* false and write nothing: every Payment and every Order is unchanged.
C5_UnknownPaymentIdWritesNothing ==
    [][\A t \in Workers : \A payment_id \in PaymentIds :
          (\A i \in Ids(payments) : payments[i].paypal_payment_id # payment_id)
          => /\ \A payer_id \in PayerIds :
                   complete_paypal_payment(t, payment_id, payer_id)
                   => /\ frame'[t].pc = "idle"
                      /\ ret'.op = "complete"
                      /\ ret'.val = BoolVal(FALSE)
                      /\ tables' = tables
             /\ cancel_paypal_payment(t, payment_id)
                   => /\ frame'[t].pc = "idle"
                      /\ ret'.op = "cancel"
                      /\ ret'.val = BoolVal(FALSE)
                      /\ tables' = tables
    ]_vars

\* complete has just returned false for an id no stored Payment carries,
\* with payments stored
C5_Witness ==
    /\ frame["w1"].pc = "idle"
    /\ ret.op = "complete"
    /\ ret.val = BoolVal(FALSE)
    /\ payments # <<>>
    /\ \A i \in Ids(payments) :
          payments[i].paypal_payment_id # ret.args.payment_id

\* C6: in a sequence of complete and cancel calls on one stored payment id,
\* run one after another, every call returns true and, whenever no call is
\* in progress, the Order is PAID if complete was the last of them to run
\* and CANCELLED if cancel was.
C6_LastCallDecidesOrderStatus ==
    [][\A t \in Workers :
        /\ \A i \in Ids(payments) :
              /\ \A payer_id \in PayerIds :
                    complete_paypal_payment(t, payments[i].paypal_payment_id,
                                            payer_id)
                    => frame'[t].pc # "idle"
              /\ cancel_paypal_payment(t, payments[i].paypal_payment_id)
                    => frame'[t].pc # "idle"
        /\ (ReturnsFrom(t, "complete") \/ ReturnsFrom(t, "cancel"))
              => ret'.val = BoolVal(TRUE)
        /\ (\A w \in Workers : frame'[w].pc = "idle")
              => \A i \in Ids(payments') :
                    LET payment_id == payments'[i].paypal_payment_id IN
                    payment_id \in DOMAIN lastCall'
                    => orders'[payments'[i].order_id].status
                          = IF lastCall'[payment_id] = "complete"
                            THEN "paid" ELSE "cancelled"
    ]_vars

\* a payment was completed, then cancelled, another call ran after that and
\* the order is still cancelled
C6_Witness ==
    /\ frame["w1"].pc = "idle"
    /\ ret.op = "purchase"
    /\ \E i \in Ids(payments) :
          /\ payments[i].paypal_payment_id \in DOMAIN lastCall
          /\ lastCall[payments[i].paypal_payment_id] = "cancel"
          /\ payments[i].transaction_id # NoneTok
          /\ orders[payments[i].order_id].status = "cancelled"

----------------------------------------------------------------------------
(* Properties of the customer directory *)

\* C7: get_or_create_customer called with an email that an earlier call
\* stored returns the stored record (the id the first call returned),
\* whatever name and phone it is given, creates no record and leaves the
\* stored first_name, last_name and phone as the first call wrote them; the
\* first call stores and returns a record with its arguments.
C7_RepeatEmailReturnsStoredCustomer ==
    [][\A t \in Workers :
        ReturnsFrom(t, "get_or_create_customer")
        => LET a == frame[t].args
               known == {i \in Ids(customers) : customers[i].email = a.email}
           IN  IF known # {}
               THEN /\ customers' = customers
                    /\ \E i \in known :
                          /\ ret'.val = RowVal(customers[i])
                          /\ customers[i].id = i
               ELSE /\ Len(customers') = Len(customers) + 1
                    /\ ret'.val = RowVal(customers'[Len(customers')])
                    /\ customers'[Len(customers')]
                          = [id |-> Len(customers) + 1, email |-> a.email,
                             first_name |-> a.first_name,
                             last_name |-> a.last_name, phone |-> a.phone]
                    /\ \A i \in Ids(customers) : customers'[i] = customers[i]
    ]_vars

\* a second call with the same email and another name and phone has just
\* returned the record the first call stored
C7_Witness ==
    /\ frame["w1"].pc = "idle"
    /\ ret.op = "get_or_create_customer"
    /\ ret.args.first_name = "Different Name"
    /\ ret.args.phone = "123-456-7890"
    /\ \E i \in Ids(customers) :
          /\ ret.val = RowVal(customers[i])
          /\ customers[i].email = ret.args.email
          /\ customers[i].first_name = "Jane"
          /\ customers[i].phone = NoneStr

\* C8: there is at most one Customer record per email in every reachable
\* state, also when two calls for an email not yet stored interleave between
\* the lookup and the insert.
C8_OneCustomerPerEmail ==
    \A i, j \in Ids(customers) :
        customers[i].email = customers[j].email => i = j

\* two calls for one new email both passed the lookup; the insert of the
\* second was refused and its caller saw the exception; one record is stored
C8_Witness ==
    /\ ret.op = "get_or_create_customer"
    /\ ret.val = Raised
    /\ Cardinality({i \in Ids(customers) :
                       customers[i].email = ret.args.email}) = 1

----------------------------------------------------------------------------
(* Properties of the catalog queries *)

\* the created products (by id) that a listing shows
Listed(listing) == {listing[k].id : k \in 1..Len(listing)}

\* a listing shows every row once, with the fields it was created with
Faithful(listing) ==
    /\ Cardinality(Listed(listing)) = Len(listing)
    /\ \A k \in 1..Len(listing) :
          /\ listing[k].id \in 1..Len(created)
          /\ listing[k] = [id |-> listing[k].id,
                           price |-> created[listing[k].id].price,
                           stock_quantity |->
                               created[listing[k].id].stock_quantity,
                           is_active |-> created[listing[k].id].is_active,
                           sku |-> created[listing[k].id].sku,
                           category |-> created[listing[k].id].category]

\* C9: after any sequence of create_product calls, get_all_active_products
\* returns exactly the products created with is_active = true, and never a
\* product with is_active = false.
C9_ListActiveIsCreatedActive ==
    /\ Faithful(get_all_active_products)
    /\ Listed(get_all_active_products)
          = {i \in 1..Len(created) : created[i].is_active}
    /\ \A k \in 1..Len(get_all_active_products) :
          get_all_active_products[k].is_active

\* an inactive and an active product were created; one is listed
C9_Witness ==
    /\ \E i, j \in 1..Len(created) :
          created[i].is_active /\ ~created[j].is_active
    /\ Len(get_all_active_products) = 1

\* C10: get_products_by_category(c) returns exactly the products that are
\* active and whose category is exactly c, and the empty list for a category
\* no active product carries, one carried only by inactive products included.
C10_ListByCategoryIsActiveInCategory ==
    \A c \in Categories :
        /\ Faithful(get_products_by_category(c))
        /\ Listed(get_products_by_category(c))
              = {i \in 1..Len(created) :
                    created[i].is_active /\ created[i].category = c}
        /\ (\A i \in 1..Len(created) :
                ~(created[i].is_active /\ created[i].category = c))
              => get_products_by_category(c) = <<>>

\* a category is carried by an inactive product only and lists nothing,
\* while another category lists a product
C10_Witness ==
    /\ \E i \in 1..Len(created) :
          ~created[i].is_active /\ created[i].category = "Web Development"
    /\ get_products_by_category("Web Development") = <<>>
    /\ Len(get_products_by_category("Mobile Development")) = 1

----------------------------------------------------------------------------
(* Properties of the catalog writes *)

\* every created product is retrievable by its id with the price and the
\* stock_quantity of its input
StoredAsCreated ==
    \A i \in 1..Len(created) :
        /\ get_product_by_id(i) # NoneVal
        /\ get_product_by_id(i).id = i
        /\ get_product_by_id(i).price = created[i].price
        /\ get_product_by_id(i).stock_quantity = created[i].stock_quantity

\* C11: for every valid ProductCreate input (price >= 0, stock_quantity >= 0,
\* sku absent or not yet used), create_product returns a record whose id
\* differs from every existing product id, and get_product_by_id on that id
\* returns the price and the stock_quantity of the input, also after any
\* later create_product, purchase, complete and cancel calls.
C11_CreateThenGetById ==
    [][/\ \A t \in Workers : \A d \in ProductInputs :
              ( /\ create_product(t, d)
                /\ d.price >= 0
                /\ d.stock_quantity >= 0
                /\ d.sku = NoneStr
                   \/ \A i \in Ids(products) : products[i].sku # d.sku )
              => /\ Len(created') = Len(created) + 1
                 /\ created'[Len(created')] = d
                 /\ \E id \in Ids(products') \ Ids(products) :
                       /\ \A i \in Ids(products) : products[i].id # id
                       /\ ret'.val = RowVal(products'[id])
                       /\ products'[id].id = id
                       /\ id = Len(created')
       /\ StoredAsCreated'
    ]_vars

\* a product priced 123.45 was created second; a purchase and a completion
\* ran afterwards and the product still reads 123.45 with stock 0
C11_Witness ==
    /\ frame["w1"].pc = "idle"
    /\ ret.op = "complete"
    /\ ret.val = BoolVal(TRUE)
    /\ Len(created) = 2
    /\ created[2].price = 12345
    /\ get_product_by_id(2).price = 12345
    /\ get_product_by_id(2).stock_quantity = 0

\* C12: a seed_sample_products call made while the catalog holds at least
\* one product (frame[t].catalog is the catalog at the call) adds no product.
C12_SeedSkipsNonEmptyCatalog ==
    [][\A t \in Workers :
        ( /\ frame[t].pc # "idle"
          /\ frame[t].op = "seed_sample_products"
          /\ frame[t].catalog # <<>> )
        => products' = products
    ]_vars

----------------------------------------------------------------------------
(* Further properties of the checkout calls *)

\* C13: the handle a successful purchase returns has status PENDING and the
\* id of the Order that call created, and get_payment_by_id on its
\* payment_id returns a stored Payment with status PENDING, order_id the
\* handle's order_id and amount the product's price.
C13_HandleNamesPendingPayment ==
    [][\A t \in Workers : \A h \in handles' :
        ( /\ ReturnsFrom(t, "purchase")
          /\ ret'.val = HandleVal(h) )
        => LET b == frame[t].base
               product == products[frame[t].args.product_id]
           IN  /\ h.status = "pending"
               /\ h.order_id \in Ids(orders') \ (1..b.orders)
               /\ Len(orders') = b.orders + 1
               /\ orders'[h.order_id].id = h.order_id
               /\ get_payment_by_id(h.payment_id)' # NoneVal
               /\ get_payment_by_id(h.payment_id)'.id
                     \in Ids(payments') \ (1..b.payments)
               /\ get_payment_by_id(h.payment_id)'.status = "pending"
               /\ get_payment_by_id(h.payment_id)'.order_id = h.order_id
               /\ get_payment_by_id(h.payment_id)'.amount = product.price
    ]_vars

\* a second purchase has just returned a handle; its payment is stored
\* pending for the second order with the price of the product
C13_Witness ==
    /\ frame["w1"].pc = "idle"
    /\ ret.op = "purchase"
    /\ \E h \in handles :
          /\ ret.val = HandleVal(h)
          /\ h.order_id = 2
          /\ get_payment_by_id(h.payment_id) # NoneVal
          /\ get_payment_by_id(h.payment_id).status = "pending"
          /\ get_payment_by_id(h.payment_id).order_id = 2
          /\ get_payment_by_id(h.payment_id).amount
                = products[ret.args.product_id].price

\* the order lines stored for a product
LinesOf(product_id) ==
    {i \in Ids(order_items) : order_items[i].product_id = product_id}

\* C14: no operation changes a product's stock_quantity: every step leaves
\* it as it was, so it stays the value given at creation; and a purchase of
\* an active product with stock_quantity > 0 goes ahead also when as many
\* lines as its stock, or more, have been sold already.
C14_StockNeverChanges ==
    [][/\ \A i \in Ids(products) :
              /\ i \in Ids(products')
              /\ products'[i].stock_quantity = products[i].stock_quantity
       /\ \A i \in Ids(products') :
              products'[i].stock_quantity = created'[i].stock_quantity
       /\ \A t \in Workers : \A request \in Requests :
              ( /\ purchase(t, request)
                /\ request.product_id \in Ids(products)
                /\ products[request.product_id].is_active
                /\ products[request.product_id].stock_quantity > 0
                /\ Cardinality(LinesOf(request.product_id))
                      >= products[request.product_id].stock_quantity )
              => frame'[t].pc = "customer_select"
    ]_vars

\* a product created with stock 1 was sold twice, both purchases returned a
\* handle, and its stock still reads 1
C14_Witness ==
    /\ frame["w1"].pc = "idle"
    /\ ret.op = "purchase"
    /\ ret.val # NoneVal
    /\ created[ret.args.product_id].stock_quantity = 1
    /\ products[ret.args.product_id].stock_quantity = 1
    /\ Cardinality(LinesOf(ret.args.product_id)) = 2
    /\ Cardinality(handles) = 2

\* C16: complete on a Payment that is already COMPLETED or CANCELLED is not
\* rejected: it sets the Payment COMPLETED, overwrites payer_id, transaction
\* id and completed_at, returns true and leaves the linked Order PAID.
C16_CompleteAgainIsAccepted ==
    [][\A t \in Workers :
        /\ \A i \in Ids(payments), payer_id \in PayerIds :
              ( /\ complete_paypal_payment(t, payments[i].paypal_payment_id,
                                           payer_id)
                /\ payments[i].status \in {"completed", "cancelled"} )
              => frame'[t].pc = "complete_commit"
        /\ \A i \in Ids(payments) :
              ( /\ complete_commit(t)
                /\ frame[t].args.payment_id = payments[i].paypal_payment_id
                /\ payments[i].status \in {"completed", "cancelled"} )
              => /\ frame'[t].pc = "complete_get_order"
                 /\ payments'[i].status = "completed"
                 /\ payments'[i].paypal_payer_id = frame[t].args.payer_id
                 /\ payments'[i].transaction_id # NoneTok
                 /\ payments'[i].transaction_id # payments[i].transaction_id
                 /\ payments'[i].completed_at # NoneInt
                 /\ payments'[i].completed_at # payments[i].completed_at
                 /\ payments'[i].order_id = payments[i].order_id
        /\ \A i \in Ids(payments) :
              ( /\ ReturnsFrom(t, "complete")
                /\ frame[t].args.payment_id = payments[i].paypal_payment_id
                /\ payments[i].paypal_payment_id \in DOMAIN lastCall )
              => /\ ret'.val = BoolVal(TRUE)
                 /\ payments'[i].status = "completed"
                 /\ orders'[payments[i].order_id].status = "paid"
    ]_vars

\* the one stored payment was completed by PAYER-A and then completed again
\* by PAYER-B: the second call returned true, the payment carries PAYER-B
\* and the second timestamp and transaction id, the order is paid
C16_Witness ==
    /\ frame["w1"].pc = "idle"
    /\ ret.op = "complete"
    /\ ret.val = BoolVal(TRUE)
    /\ ret.args.payer_id = "PAYER-B"
    /\ Len(payments) = 1
    /\ clock = 2
    /\ lastCall[payments[1].paypal_payment_id] = "complete"
    /\ payments[1].status = "completed"
    /\ payments[1].paypal_payer_id = "PAYER-B"
    /\ payments[1].completed_at = 2
    /\ orders[payments[1].order_id].status = "paid"

\* C17: in every state reached through purchase, complete and cancel (and
\* the catalog and customer calls, which write no order) each Order's status
\* is CREATED, PAYMENT_PENDING, PAID or CANCELLED; PROCESSING, SHIPPED and
\* DELIVERED are never produced.
C17_OnlyFourStatusesProduced ==
    \A i \in Ids(orders) :
        /\ orders[i].status \in {"created", "payment_pending", "paid",
                                 "cancelled"}
        /\ orders[i].status \notin {"processing", "shipped", "delivered"}

\* three orders: one paid, one awaiting payment and one just created by a
\* purchase that has not yet stored its line and its payment
C17_Witness ==
    /\ Len(orders) = 3
    /\ \E i, j, k \in Ids(orders) :
          /\ orders[i].status = "paid"
          /\ orders[j].status = "payment_pending"
          /\ orders[k].status = "created"
    /\ frame["w1"].pc = "create_order_item"

\* payer id, transaction id and completed_at of a Payment row
CompletionData(payment) ==
    <<payment.paypal_payer_id, payment.transaction_id, payment.completed_at>>

\* C24: payer id, transaction id and completed_at are written only by
\* complete: a Payment is stored with all three absent, only the Payment
\* write of a complete call on its payment id changes them, and cancel
\* leaves them as they are, so a Payment cancelled after completion keeps
\* its payer id and transaction id.
C24_CompletionDataOnlyByComplete ==
    [][/\ \A p \in Ids(payments') \ Ids(payments) :
              CompletionData(payments'[p]) = <<NoneStr, NoneTok, NoneInt>>
       /\ \A p \in Ids(payments) :
              CompletionData(payments'[p]) # CompletionData(payments[p])
              => \E t \in Workers :
                    /\ complete_commit(t)
                    /\ frame[t].args.payment_id = payments[p].paypal_payment_id
                    /\ payments'[p].paypal_payer_id = frame[t].args.payer_id
       /\ \A p \in Ids(payments) :
              (payments[p].transaction_id = NoneTok
                  /\ payments'[p].transaction_id = NoneTok)
              => CompletionData(payments'[p]) = <<NoneStr, NoneTok, NoneInt>>
       /\ \A t \in Workers : \A p \in Ids(payments) :
              ( /\ cancel_commit(t)
                /\ frame[t].args.payment_id = payments[p].paypal_payment_id )
              => /\ payments'[p].status = "cancelled"
                 /\ CompletionData(payments'[p]) = CompletionData(payments[p])
    ]_vars

\* of two payments, the first was completed by PAYER-A and then cancelled
\* and still carries PAYER-A, its transaction id and its timestamp; the
\* second was never completed and carries none
C24_Witness ==
    /\ frame["w1"].pc = "idle"
    /\ Len(payments) = 2
    /\ clock = 1
    /\ payments[1].status = "cancelled"
    /\ CompletionData(payments[1]) = <<"PAYER-A", TransactionId(5), 1>>
    /\ payments[2].status = "pending"
    /\ CompletionData(payments[2]) = <<NoneStr, NoneTok, NoneInt>>

\* C26: when purchase, complete and cancel run one after another and no
\* step fails, then after every call each Order that has a Payment
\* satisfies: Payment PENDING iff Order PAYMENT_PENDING, Payment COMPLETED
\* iff Order PAID, Payment CANCELLED iff Order CANCELLED; and no Payment is
\* FAILED.
C26_PaymentAndOrderStatusCorrespond ==
    (\A t \in Workers : frame[t].pc = "idle")
    => \A p \in Ids(payments) :
          LET payment == payments[p]
              order == orders[payment.order_id]
          IN  /\ payment.status = "pending"
                    <=> order.status = "payment_pending"
              /\ payment.status = "completed" <=> order.status = "paid"
              /\ payment.status = "cancelled" <=> order.status = "cancelled"
              /\ payment.status # "failed"

\* between calls, two orders with their payments: one completed and paid,
\* the other pending and awaiting payment
C26_Witness ==
    /\ frame["w1"].pc = "idle"
    /\ Len(payments) = 2
    /\ payments[1].status = "completed"
    /\ orders[payments[1].order_id].status = "paid"
    /\ payments[2].status = "pending"
    /\ orders[payments[2].order_id].status = "payment_pending"
    /\ payments[1].order_id # payments[2].order_id

\* the worker takes a step of a complete or a cancel call: a step of a call
\* in progress, or the SELECT that starts one (which returns at once when no
\* payment is found)
PaymentCallStep(t) ==
    \/ /\ frame[t].pc # "idle"
       /\ frame[t].op \in {"complete", "cancel"}
       /\ frame'[t] # frame[t]
    \/ /\ frame[t].pc = "idle"
       /\ frame'[t].pc # "idle"
       /\ frame'[t].op \in {"complete", "cancel"}
    \/ /\ frame[t].pc = "idle"
       /\ frame' = frame
       /\ calls' # calls
       /\ ret'.op \in {"complete", "cancel"}

\* the payment id that step was called with
PaymentCallId(t) ==
    IF frame[t].pc # "idle" THEN frame[t].args.payment_id
    ELSE IF frame'[t].pc # "idle" THEN frame'[t].args.payment_id
    ELSE ret'.args.payment_id

\* no row of any table is removed and no stored row changes its id
NothingDeleted ==
    /\ Len(products') >= Len(products)
    /\ Len(customers') >= Len(customers)
    /\ Len(orders') >= Len(orders)
    /\ Len(order_items') >= Len(order_items)
    /\ Len(payments') >= Len(payments)
    /\ \A i \in Ids(products) : products'[i].id = products[i].id
    /\ \A i \in Ids(customers) : customers'[i].id = customers[i].id
    /\ \A i \in Ids(orders) : orders'[i].id = orders[i].id
    /\ \A i \in Ids(order_items) : order_items'[i].id = order_items[i].id
    /\ \A i \in Ids(payments) : payments'[i].id = payments[i].id

\* C29: a step of complete(p, payer) or cancel(p) changes only the Payment
\* with provider id p and the one Order that Payment references; every other
\* Payment and Order and every Customer, Product and OrderItem is unchanged,
\* no row is added, and no step of any operation deletes a record.
C29_CompleteAndCancelTouchOnlyTheirOwn ==
    [][/\ NothingDeleted
       /\ \A t \in Workers :
             PaymentCallStep(t)
             => /\ products' = products
                /\ customers' = customers
                /\ order_items' = order_items
                /\ Len(payments') = Len(payments)
                /\ Len(orders') = Len(orders)
                /\ \A i \in Ids(payments) :
                      payments[i].paypal_payment_id # PaymentCallId(t)
                      => payments'[i] = payments[i]
                /\ \A i \in Ids(orders) :
                      (\A k \in PaymentsOf(i) :
                          payments[k].paypal_payment_id # PaymentCallId(t))
                      => orders'[i] = orders[i]]_vars

\* two purchases were made and the second payment was cancelled: the first
\* Payment is still PENDING and its Order still PAYMENT_PENDING
C29_Witness ==
    /\ frame["w1"].pc = "idle"
    /\ ret.op = "cancel"
    /\ Len(payments) = 2
    /\ payments[2].status = "cancelled"
    /\ orders[payments[2].order_id].status = "cancelled"
    /\ payments[1].status = "pending"
    /\ payments[1].order_id # payments[2].order_id
    /\ orders[payments[1].order_id].status = "payment_pending"

\* C30: in every reachable state, for each Order that has an OrderItem and a
\* Payment, Payment.amount = Order.total_amount = OrderItem.total_price =
\* OrderItem.unit_price, and that amount is the price of the purchased
\* product.
C30_OneAmountPerCheckout ==
    \A i \in Ids(orders) :
       \A k \in ItemsOf(i) :
          \A p \in PaymentsOf(i) :
             /\ payments[p].amount = orders[i].total_amount
             /\ orders[i].total_amount = order_items[k].total_price
             /\ order_items[k].total_price = order_items[k].unit_price
             /\ order_items[k].unit_price
                   = products[order_items[k].product_id].price

\* two checkouts are stored, each with its item and its payment at the
\* product price, and the first has been paid
C30_Witness ==
    /\ Len(orders) = 2
    /\ \A i \in {1, 2} : ItemsOf(i) # {} /\ PaymentsOf(i) # {}
    /\ payments[1].amount = products[order_items[1].product_id].price
    /\ payments[1].amount > 0
    /\ orders[1].status = "paid"

----------------------------------------------------------------------------
(* Properties of the intermediate states of overlapping calls (SpecConc) *)

\* C28: in every reachable state, the states between the commits of
\* overlapping purchase, complete and cancel calls included, an Order whose
\* status is not CREATED has a stored Payment referencing it, and a step that
\* makes an Order PAID or CANCELLED finds such a Payment already stored.
C28_PaymentBeforeOrderLeavesCreated ==
    /\ [](\A i \in Ids(orders) :
            orders[i].status # "created" => PaymentsOf(i) # {})
    /\ [][\A i \in Ids(orders) :
            /\ orders'[i].status \in {"paid", "cancelled"}
            /\ orders'[i].status # orders[i].status
            => PaymentsOf(i) # {}]_vars

\* while one purchase stands between its Order commit and its Payment commit
\* (Order 2 CREATED, no Payment for it), Order 1 is already PAID and has its
\* Payment
C28_Witness ==
    /\ Len(orders) = 2
    /\ orders[1].status = "paid"
    /\ PaymentsOf(1) # {}
    /\ orders[2].status = "created"
    /\ PaymentsOf(2) = {}
    /\ \E t \in Workers : frame[t].pc # "idle"

----------------------------------------------------------------------------
(* Properties of overlapping complete and cancel calls (SpecRace) *)

\* the order status a payment status stands for
OrderStatusFor(payment_status) ==
    CASE payment_status = "pending" -> "payment_pending"
      [] payment_status = "completed" -> "paid"
      [] payment_status = "cancelled" -> "cancelled"
      [] OTHER -> "none"

\* C27 as stated: when a complete and a cancel on one payment id overlap,
\* then once both have returned the Order status agrees with the Payment
\* status (COMPLETED with PAID, CANCELLED with CANCELLED) under every
\* interleaving of the four writes.
C27_OverlapEndsInAgreement ==
    (\A t \in Workers : frame[t].pc = "idle")
    => \A p \in Ids(payments) :
          orders[payments[p].order_id].status
             = OrderStatusFor(payments[p].status)

\* C27 amended: once both calls have returned, both have returned true, the
\* Payment is COMPLETED or CANCELLED and the Order is PAID or CANCELLED; the
\* two need not agree, and neither need carry the status of the call that
\* returned last.
C27_BothReturnTrueStatusesMayDiffer ==
    /\ ret.op \in {"complete", "cancel"} => ret.val = BoolVal(TRUE)
    /\ (\A t \in Workers : frame[t].pc = "idle")
       => \A p \in Ids(payments) :
             payments[p].paypal_payment_id \in DOMAIN lastCall
             => /\ payments[p].status \in {"completed", "cancelled"}
                /\ orders[payments[p].order_id].status
                      \in {"paid", "cancelled"}

\* one complete and one cancel overlapped and both have returned, the
\* complete last: the complete wrote the Payment last and the cancel wrote
\* the Order last, leaving a COMPLETED Payment and a CANCELLED Order
C27_Witness ==
    /\ \A t \in Workers : frame[t].pc = "idle"
    /\ calls = MaxRaceCalls - 2
    /\ ret.val = BoolVal(TRUE)
    /\ payments[1].status = "completed"
    /\ lastCall[payments[1].paypal_payment_id] = "complete"
    /\ orders[payments[1].order_id].status = "cancelled"

----------------------------------------------------------------------------
(* Properties of the checkout calls under a failing store (SpecFault) *)

\* order i was left behind by a purchase that failed after create_order:
\* it is CREATED, no Payment names it and no call in progress owns it
Abandoned(i) ==
    /\ i \in Ids(orders)
    /\ orders[i].status = "created"
    /\ \A p \in Ids(payments) : payments[p].order_id # i
    /\ \A t \in Workers :
          frame[t].pc \in {"create_order_item", "create_payment",
                           "payment_get_order", "payment_pending",
                           "purchase_return"}
          => frame[t].order.id # i

\* C18: there is no compensation: when persisting the Payment fails after
\* create_order succeeded, purchase returns None while the Customer, the
\* Order and its OrderItem stay stored, and that Order keeps status CREATED
\* through every later purchase, complete and cancel call.
C18_FailedPaymentLeavesCreatedOrder ==
    [][/\ \A t \in Workers :
              create_payment_fails(t)
              => \E order_id \in Ids(orders') :
                 /\ order_id = frame[t].order.id
                 /\ order_id > frame[t].base.orders
                 /\ ret' = [op |-> "purchase", args |-> frame[t].args,
                            val |-> NoneVal]
                 /\ \E c \in Ids(customers') :
                       /\ customers'[c].email = frame[t].args.customer_email
                       /\ orders'[order_id].customer_id = c
                 /\ orders'[order_id].status = "created"
                 /\ Cardinality({k \in Ids(order_items') :
                                    order_items'[k].order_id = order_id}) = 1
                 /\ Abandoned(order_id)'
       /\ \A i \in Ids(orders) : Abandoned(i) => Abandoned(i)'
    ]_vars

\* the first purchase failed at the Payment commit; a second purchase and
\* its completion followed, and the first order is still CREATED with its
\* line and no payment
C18_Witness ==
    /\ frame["w1"].pc = "idle"
    /\ ret.op = "complete"
    /\ ret.val = BoolVal(TRUE)
    /\ Abandoned(1)
    /\ Cardinality({k \in Ids(order_items) : order_items[k].order_id = 1}) = 1
    /\ customers # <<>>
    /\ Len(orders) = 2
    /\ orders[2].status = "paid"

\* C23: every Payment references one stored Order; a purchase call stores at
\* most one Payment, for the Order that same call created; so in every
\* reachable state no Order has more than one Payment or more than one
\* OrderItem.
C23_OnePaymentOneItemPerOrder ==
    [][/\ \A p \in Ids(payments') :
              /\ payments'[p].order_id \in Ids(orders')
              /\ orders'[payments'[p].order_id].id = payments'[p].order_id
       /\ \A t \in Workers :
              ( /\ frame[t].pc # "idle"
                /\ frame[t].op = "purchase" )
              => /\ Len(payments') <= frame[t].base.payments + 1
                 /\ \A p \in Ids(payments') \ Ids(payments) :
                       /\ payments'[p].order_id = frame[t].order.id
                       /\ payments'[p].order_id > frame[t].base.orders
       /\ \A i \in Ids(orders') :
              /\ Cardinality(PaymentsOf(i)') <= 1
              /\ Cardinality(ItemsOf(i)') <= 1
    ]_vars

\* three purchases: the first lost its payment to a failed commit, the
\* other two have one payment each; every order has one line
C23_Witness ==
    /\ frame["w1"].pc = "idle"
    /\ Len(orders) = 3
    /\ Cardinality(PaymentsOf(1)) = 0
    /\ Cardinality(PaymentsOf(2)) = 1
    /\ Cardinality(PaymentsOf(3)) = 1
    /\ \A i \in Ids(orders) : Cardinality(ItemsOf(i)) = 1

----------------------------------------------------------------------------
(* Properties of the OrderService writes, checked under SpecOrders *)

\* C15: update_order_status(id, s) on an existing order sets its status to
\* s and returns the updated order, whatever the current status and
\* whatever s among the seven OrderStatus values: no transition is rejected,
\* those out of CANCELLED, PAID and DELIVERED included.
C15_AnyStatusFollowsAnyStatus ==
    [][\A t \in Workers : \A order_id \in OrderIds, status \in OrderStatus :
        ( /\ update_order_status_call(t, order_id, status)
          /\ order_id \in Ids(orders)
          /\ orders[order_id].status \in OrderStatus )
        => /\ Len(orders') = Len(orders)
           /\ orders'[order_id].status = status
           /\ orders'[order_id].id = order_id
           /\ orders'[order_id].order_number = orders[order_id].order_number
           /\ orders'[order_id].customer_id = orders[order_id].customer_id
           /\ orders'[order_id].total_amount = orders[order_id].total_amount
           /\ \A i \in Ids(orders) \ {order_id} : orders'[i] = orders[i]
           /\ frame'[t].pc = "idle"
           /\ ret'.op = "update_order_status"
           /\ ret'.val = RowVal(orders'[order_id])
    ]_vars

\* a purchase, the cancellation of its payment and, third, an
\* update_order_status that took the cancelled order to PROCESSING and
\* returned it
C15_Witness ==
    /\ frame["w1"].pc = "idle"
    /\ calls = MaxOrderCalls - 3
    /\ ret.op = "update_order_status"
    /\ ret.args.status = "processing"
    /\ \E i \in Ids(payments) :
          /\ payments[i].status = "cancelled"
          /\ payments[i].order_id = ret.args.order_id
          /\ ret.val = RowVal(orders[ret.args.order_id])
          /\ orders[ret.args.order_id].status = "processing"

\* C21: Order.total_amount is set once, at creation, to the price of the
\* product handed to create_order; update_order_status, complete, cancel
\* and later purchases change neither the total_amount of a stored Order nor
\* the unit_price or total_price of a stored OrderItem.
C21_TotalsAreWrittenOnce ==
    [][/\ \A t \in Workers :
              ( /\ create_order(t)
                /\ orders' # orders )
              => /\ Len(orders') = Len(orders) + 1
                 /\ orders'[Len(orders')].total_amount
                       = frame[t].product.price
       /\ \A i \in Ids(orders) :
              /\ i \in Ids(orders')
              /\ orders'[i].total_amount = orders[i].total_amount
       /\ \A k \in Ids(order_items) :
              /\ k \in Ids(order_items')
              /\ order_items'[k].unit_price = order_items[k].unit_price
              /\ order_items'[k].total_price = order_items[k].total_price
    ]_vars

\* an order was bought at 99.99, cancelled through its payment and then
\* set to SHIPPED by update_order_status: total and line still read 99.99
C21_Witness ==
    /\ frame["w1"].pc = "idle"
    /\ ret.op = "update_order_status"
    /\ ret.args.status = "shipped"
    /\ ret.args.order_id \in Ids(orders)
    /\ orders[ret.args.order_id].total_amount = 9999
    /\ \E p \in Ids(payments) :
          /\ payments[p].order_id = ret.args.order_id
          /\ payments[p].status = "cancelled"
    /\ \E k \in Ids(order_items) :
          /\ order_items[k].order_id = ret.args.order_id
          /\ order_items[k].unit_price = 9999
          /\ order_items[k].total_price = 9999

\* C22: in every reachable state every OrderItem references a stored Order
\* and a stored Product, has quantity >= 1 and total_price = unit_price *
\* quantity.
C22_OrderItemsAreWellFormed ==
    \A k \in Ids(order_items) :
        /\ order_items[k].order_id \in Ids(orders)
        /\ orders[order_items[k].order_id].id = order_items[k].order_id
        /\ order_items[k].product_id \in Ids(products)
        /\ products[order_items[k].product_id].id = order_items[k].product_id
        /\ order_items[k].quantity >= 1
        /\ order_items[k].total_price
              = order_items[k].unit_price * order_items[k].quantity

\* create_order was refused for a product without id, leaving an order
\* without line, and two other orders have their line
C22_Witness ==
    /\ frame["w1"].pc = "idle"
    /\ Len(orders) = 3
    /\ Len(order_items) = 2
    /\ \E i \in Ids(orders) :
          \A k \in Ids(order_items) : order_items[k].order_id # i

\* C19: create_order called with customer.id or product.id unassigned
\* raises the precondition error, and no Order and no OrderItem has been
\* stored by the call when it does.
C19_UnassignedIdStoresNothing ==
    [][\A t \in Workers :
        ( /\ ReturnsFrom(t, "create_order")
          /\ \/ frame[t].args.customer.id = NoneInt
             \/ frame[t].args.product.id = NoneInt )
        => /\ ret'.val = Raised
           /\ Len(orders') = frame[t].base.orders
           /\ Len(order_items') = frame[t].base.order_items
    ]_vars

----------------------------------------------------------------------------
(* The checkout form *)

\* the required contact and shipping fields of a PayPalPaymentRequest
RequiredFields ==
    {"customer_email", "customer_first_name", "customer_last_name",
     "shipping_address_line1", "shipping_city", "shipping_state",
     "shipping_postal_code", "shipping_country"}

\* C25: a purchase request with an empty required contact or shipping field
\* is rejected before any persistence: the call stores no Customer, Order,
\* OrderItem or Payment.
C25_EmptyFieldStoresNothing ==
    [][\A t \in Workers :
        ( /\ frame[t].pc # "idle"
          /\ frame[t].op = "purchase"
          /\ \E f \in RequiredFields : frame[t].args[f] = <<>> )
        => /\ customers' = customers
           /\ orders' = orders
           /\ order_items' = order_items
           /\ payments' = payments
    ]_vars

----------------------------------------------------------------------------
(* Failure signalling *)

\* C20: no core operation propagates a persistence failure to its caller:
\* create_product, get_or_create_customer, create_order, purchase, complete
\* and cancel return None or False when a write fails, they never raise.
C20_NoOperationRaises ==
    ret.op \in {"create_product", "get_or_create_customer", "create_order",
                "purchase", "complete", "cancel"}
    => ret.val # Raised

====
